---- MODULE Spec2Model ----
(***************************************************************************)
(* A model of the colour-space subsystem of pdf.js (src/core/colorspace.js *)
(* and the classes it builds): the descriptor parser with its cache, and   *)
(* the conversion routines of the colour spaces.                           *)
(*                                                                         *)
(* Numbers.  JavaScript numbers that are real-valued (white points,        *)
(* gammas, normalised samples, intermediate colours) are fixed-point       *)
(* integers in units of 1/FP.  Integer-valued numbers (sample values,      *)
(* component counts, lengths, offsets, bytes) are plain integers.          *)
(* Typed arrays are sequences, index i of the code being index i+1 here.   *)
(***************************************************************************)
EXTENDS Integers, Sequences, FiniteSets, TLC

VARIABLES
  \* ---- parser / cache (ColorSpace.parse, parseAsync, getCached) ----
  cache,      \* the LocalColorSpaceCache handed to parse: [byRef, byName]
  nextId,     \* number of colour-space objects constructed so far
  sing,       \* ColorSpace.singletons: the shadowed gray / rgb / cmyk values
  made,       \* how many device instances of each family were constructed
  loaded,     \* the references whose data the xref has already loaded
  returned,   \* per descriptor: id the last successful parse on this cache gave
  last,       \* what the last call did (operation, outcome, calls it made)
  build,      \* the build: "dev" (assertions compiled in) or "production"
  calls,      \* number of parser calls made so far
  \* ---- conversions (getRgb, getRgbItem, getRgbBuffer, fillRgb, ...) ----
  conv        \* the inputs of one conversion call and what it produced

vars == <<cache, nextId, sing, made, loaded, returned, last, build, calls, conv>>

\* The fixed-point unit: the real number x is the integer x * FP.
FP == 10 * 10 * 10

(***************************************************************************)
(* PDF objects (primitives.js is outside the modelled files: only the      *)
(* kinds the parser distinguishes are kept).                               *)
(***************************************************************************)
Undef == [t |-> "Undef"]

Name(s) == [t |-> "Name", name |-> s]

Ref(n) == [t |-> "Ref", num |-> n]

Arr(s) == [t |-> "Array", a |-> s]

Dict(d) == [t |-> "Dict", d |-> d]

\* an integer-valued number
Num(n) == [t |-> "Num", v |-> n]

\* a real number, in units of 1/FP
Real(x) == [t |-> "Real", v |-> x]

\* an array of real numbers (the result of Dict.getArray on a numeric array)
Nums(s) == [t |-> "Nums", v |-> s]

\* a string, as its char codes
Str(codes) == [t |-> "Str", codes |-> codes]

\* a stream: its dictionary and its bytes
Stream(d, bytes) == [t |-> "Stream", dict |-> Dict(d), bytes |-> bytes]

\* a PDF function object, named by the tint function the factory makes of it
Fn(k) == [t |-> "Fn", k |-> k]

IsName(o) == o.t = "Name"

IsRef(o) == o.t = "Ref"

IsArray(o) == o.t = "Array"

IsDict(o) == o.t = "Dict"

\* JavaScript truthiness of a value: undefined, 0 and "" are falsy
Truthy(o) ==
  CASE o.t = "Undef" -> FALSE
    [] o.t = "Num" -> o.v # 0
    [] o.t = "Real" -> o.v # 0
    [] o.t = "Str" -> Len(o.codes) > 0
    [] OTHER -> TRUE

\* element i (0-based) of a JavaScript array, undefined past its end
At(arr, i) == IF i + 1 \in 1..Len(arr.a) THEN arr.a[i + 1] ELSE Undef

(***************************************************************************)
(* Results of calls that may throw: ex names the exception ("none" when    *)
(* the call returned).                                                     *)
(***************************************************************************)
Ok(v) == [ex |-> "none", v |-> v]

Throw(e) == [ex |-> e]

(***************************************************************************)
(* The constructors of the colour-space classes.  A colour space is a      *)
(* record of the fields its constructor sets.                              *)
(***************************************************************************)
DeviceGrayCS == [name |-> "DeviceGray", numComps |-> 1]

DeviceRgbCS == [name |-> "DeviceRGB", numComps |-> 3]

DeviceCmykCS == [name |-> "DeviceCMYK", numComps |-> 4]

AnyNegative(p) == p[1] < 0 \/ p[2] < 0 \/ p[3] < 0

\* CalGrayCS keeping a gamma below 1
CalGrayCSAnyGamma(whitePoint, blackPoint, gamma) ==
  IF ~Truthy(whitePoint) THEN Throw("FormatError")
  ELSE LET wp == whitePoint.v
           bp == IF Truthy(blackPoint) THEN blackPoint.v ELSE <<0, 0, 0>>
           g  == IF Truthy(gamma) THEN gamma.v ELSE FP
       IN IF wp[1] < 0 \/ wp[3] < 0 \/ wp[2] # FP THEN Throw("FormatError")
          ELSE Ok([name |-> "CalGray", numComps |-> 1,
                   XW |-> wp[1], YW |-> wp[2], ZW |-> wp[3],
                   XB |-> IF AnyNegative(bp) THEN 0 ELSE bp[1],
                   YB |-> IF AnyNegative(bp) THEN 0 ELSE bp[2],
                   ZB |-> IF AnyNegative(bp) THEN 0 ELSE bp[3],
                   G  |-> g])

\* new CalGrayCS(whitePoint, blackPoint, gamma)
CalGrayCS(whitePoint, blackPoint, gamma) ==
  IF ~Truthy(whitePoint) THEN Throw("FormatError")
  ELSE LET wp == whitePoint.v
           bp == IF Truthy(blackPoint) THEN blackPoint.v ELSE <<0, 0, 0>>
           g  == IF Truthy(gamma) THEN gamma.v ELSE FP
       IN IF wp[1] < 0 \/ wp[3] < 0 \/ wp[2] # FP THEN Throw("FormatError")
          ELSE Ok([name |-> "CalGray", numComps |-> 1,
                   XW |-> wp[1], YW |-> wp[2], ZW |-> wp[3],
                   XB |-> IF AnyNegative(bp) THEN 0 ELSE bp[1],
                   YB |-> IF AnyNegative(bp) THEN 0 ELSE bp[2],
                   ZB |-> IF AnyNegative(bp) THEN 0 ELSE bp[3],
                   G  |-> IF g < FP THEN FP ELSE g])

\* new CalRGBCS(whitePoint, blackPoint, gamma, matrix)
CalRGBCS(whitePoint, blackPoint, gamma, matrix) ==
  IF ~Truthy(whitePoint) THEN Throw("FormatError")
  ELSE LET wp == whitePoint.v
           bp == IF Truthy(blackPoint) THEN blackPoint.v ELSE <<0, 0, 0>>
           g  == IF Truthy(gamma) THEN gamma.v ELSE <<FP, FP, FP>>
           m  == IF Truthy(matrix) THEN matrix.v
                 ELSE <<FP, 0, 0, 0, FP, 0, 0, 0, FP>>
       IN IF wp[1] < 0 \/ wp[3] < 0 \/ wp[2] # FP THEN Throw("FormatError")
          ELSE Ok([name |-> "CalRGB", numComps |-> 3,
                   whitePoint |-> wp,
                   blackPoint |-> IF AnyNegative(bp) THEN <<0, 0, 0>> ELSE bp,
                   GR |-> IF AnyNegative(g) THEN FP ELSE g[1],
                   GG |-> IF AnyNegative(g) THEN FP ELSE g[2],
                   GB |-> IF AnyNegative(g) THEN FP ELSE g[3],
                   MXA |-> m[1], MYA |-> m[2], MZA |-> m[3],
                   MXB |-> m[4], MYB |-> m[5], MZB |-> m[6],
                   MXC |-> m[7], MYC |-> m[8], MZC |-> m[9]])

\* LabCS checking only that the white point is there
LabCSAnyWhitePoint(whitePoint, blackPoint, range) ==
  IF ~Truthy(whitePoint) THEN Throw("FormatError")
  ELSE LET wp == whitePoint.v
           bp == IF Truthy(blackPoint) THEN blackPoint.v ELSE <<0, 0, 0>>
           rg == IF Truthy(range) THEN range.v
                 ELSE <<-100 * FP, 100 * FP, -100 * FP, 100 * FP>>
           badRange == rg[1] > rg[2] \/ rg[3] > rg[4]
       IN Ok([name |-> "Lab", numComps |-> 3,
              XW |-> wp[1], YW |-> wp[2], ZW |-> wp[3],
              amin |-> IF badRange THEN -100 * FP ELSE rg[1],
              amax |-> IF badRange THEN 100 * FP ELSE rg[2],
              bmin |-> IF badRange THEN -100 * FP ELSE rg[3],
              bmax |-> IF badRange THEN 100 * FP ELSE rg[4],
              XB |-> IF AnyNegative(bp) THEN 0 ELSE bp[1],
              YB |-> IF AnyNegative(bp) THEN 0 ELSE bp[2],
              ZB |-> IF AnyNegative(bp) THEN 0 ELSE bp[3]])

\* new LabCS(whitePoint, blackPoint, range)
LabCS(whitePoint, blackPoint, range) ==
  IF ~Truthy(whitePoint) THEN Throw("FormatError")
  ELSE LET wp == whitePoint.v
           bp == IF Truthy(blackPoint) THEN blackPoint.v ELSE <<0, 0, 0>>
           rg == IF Truthy(range) THEN range.v
                 ELSE <<-100 * FP, 100 * FP, -100 * FP, 100 * FP>>
           badRange == rg[1] > rg[2] \/ rg[3] > rg[4]
       IN IF wp[1] < 0 \/ wp[3] < 0 \/ wp[2] # FP THEN Throw("FormatError")
          ELSE Ok([name |-> "Lab", numComps |-> 3,
                   XW |-> wp[1], YW |-> wp[2], ZW |-> wp[3],
                   amin |-> IF badRange THEN -100 * FP ELSE rg[1],
                   amax |-> IF badRange THEN 100 * FP ELSE rg[2],
                   bmin |-> IF badRange THEN -100 * FP ELSE rg[3],
                   bmax |-> IF badRange THEN 100 * FP ELSE rg[4],
                   XB |-> IF AnyNegative(bp) THEN 0 ELSE bp[1],
                   YB |-> IF AnyNegative(bp) THEN 0 ELSE bp[2],
                   ZB |-> IF AnyNegative(bp) THEN 0 ELSE bp[3]])

\* the length a typed array gets for a component count (null counts as 0)
CompCount(cs) == IF cs.numComps < 0 THEN 0 ELSE cs.numComps

\* IndexedCS with a lookup that is neither a stream nor a string read as an
\* empty string
IndexedCSAnyLookup(base, highVal, lookup) ==
  LET length == CompCount(base) * highVal
      byte(i) ==
        IF lookup.t = "Stream"
          THEN (IF i <= Len(lookup.bytes) THEN lookup.bytes[i] ELSE 0)
        ELSE IF lookup.t = "Str"
          THEN (IF i <= Len(lookup.codes) THEN lookup.codes[i] % 256 ELSE 0)
        ELSE 0
  IN IF length < 0 THEN Throw("RangeError")
     ELSE Ok([name |-> "Indexed", numComps |-> 1, base |-> base,
              highVal |-> highVal,
              lookup |-> [i \in 1..length |-> byte(i)]])

\* new IndexedCS(base, highVal, lookup), highVal an integer
IndexedCS(base, highVal, lookup) ==
  LET length == CompCount(base) * highVal
      byte(i) ==
        IF lookup.t = "Stream"
          THEN (IF i <= Len(lookup.bytes) THEN lookup.bytes[i] ELSE 0)
          ELSE (IF i <= Len(lookup.codes) THEN lookup.codes[i] % 256 ELSE 0)
  IN IF length < 0 THEN Throw("RangeError")
     ELSE IF lookup.t \notin {"Stream", "Str"} THEN Throw("FormatError")
     ELSE Ok([name |-> "Indexed", numComps |-> 1, base |-> base,
              highVal |-> highVal,
              lookup |-> [i \in 1..length |-> byte(i)]])

\* new AlternateCS(numComps, base, tintFn)
AlternateCS(numComps, base, tintFn) ==
  [name |-> "Alternate", numComps |-> numComps, base |-> base,
   tintFn |-> tintFn, tmpBuf |-> [i \in 1..CompCount(base) |-> 0]]

\* new PatternCS(baseCS): numComps is null (-1 here), base may be null
PatternCS(hasBase, baseCS) ==
  IF hasBase
    THEN [name |-> "Pattern", numComps |-> -1, hasBase |-> TRUE, base |-> baseCS]
    ELSE [name |-> "Pattern", numComps |-> -1, hasBase |-> FALSE]

(***************************************************************************)
(* The document the parser is run on: the xref table, the resource         *)
(* dictionaries and the descriptors handed to parse.                       *)
(***************************************************************************)
\* white points: D65 and D50, both with YW = 1
WhiteD65 == Nums(<<950, FP, 1089>>)

WhiteD50 == Nums(<<964, FP, 825>>)

CalGrayArray == Arr(<<Name("CalGray"),
                      Dict([WhitePoint |-> WhiteD65, Gamma |-> Real(2 * FP)])>>)

CalRGBArray == Arr(<<Name("CalRGB"), Dict([WhitePoint |-> WhiteD65])>>)

LabArray == Arr(<<Name("Lab"), Dict([WhitePoint |-> WhiteD50])>>)

SeparationArray == Arr(<<Name("Separation"), Name("Spot"), Name("DeviceRGB"), Fn(1)>>)

DeviceNArray ==
  Arr(<<Name("DeviceN"), Arr(<<Name("Spot"), Name("Gold")>>), Name("DeviceCMYK"), Fn(2)>>)

IndexedArray == Arr(<<Name("Indexed"), Name("DeviceRGB"), Num(1),
                      Str(<<0, 255, 0, 511, 0, 0>>)>>)

\* the objects behind the indirect references
XrefTable ==
  <<Name("Foo"),
    CalGrayArray,
    IndexedArray,
    Undef>>

RefNums == 1..Len(XrefTable)

\* references whose xref entry is corrupt: fetching them throws
\* an exception that is not a MissingDataException
BrokenRefs == {4}

\* references whose data arrives late: fetching them throws
\* MissingDataException until the data is loaded
LateRefs == {3}

\* xref.fetch(ref)
Fetch(ref, ld) ==
  IF ref.num \notin ld THEN Throw("MissingDataException")
  ELSE IF ref.num \in BrokenRefs THEN Throw("XRefEntryException")
  ELSE Ok(XrefTable[ref.num])

\* xref.fetchIfRef(obj)
FetchIfRef(obj, ld) == IF IsRef(obj) THEN Fetch(obj, ld) ELSE Ok(obj)

\* Dict.get(key) and Dict.getArray(key): the value, resolved through the xref
DictGet(dict, key, ld) ==
  IF key \in DOMAIN dict.d THEN FetchIfRef(dict.d[key], ld) ELSE Ok(Undef)

\* the resources argument of parse: null, or a dictionary
ResourcesList ==
  <<Undef,
    Dict([ColorSpace |->
            Dict(("" :> LabArray) @@
                 [Foo |-> CalGrayArray, Alias |-> Name("DeviceCMYK"),
                  Loop |-> Name("Loop")])]),
    Dict([ColorSpace |-> Dict([Foo |-> SeparationArray])])>>

IccStream(d) == Stream(d, <<>>)

\* the cs argument of parse
Descriptors ==
  <<Name("DeviceGray"),
    Name("RGB"),
    Name("Pattern"),
    Name("Foo"),
    Name(""),
    Name("Alias"),
    Name("Nope"),
    Name("Loop"),
    Ref(1),
    Ref(2),
    Ref(3),
    Ref(4),
    Arr(<<Name("CMYK")>>),
    Arr(<<Name("ICCBased"), IccStream([N |-> Num(4), Alternate |-> Name("DeviceCMYK")])>>),
    Arr(<<Name("ICCBased"), IccStream([N |-> Num(3), Alternate |-> CalRGBArray])>>),
    Arr(<<Name("ICCBased"), IccStream([N |-> Num(3), Alternate |-> CalGrayArray])>>),
    Arr(<<Name("ICCBased"), IccStream([N |-> Num(1)])>>),
    Arr(<<Name("ICCBased"), IccStream([N |-> Num(2)])>>),
    Arr(<<Name("ICCBased"), IccStream([N |-> Num(1), Alternate |-> Name("Nope")])>>),
    Arr(<<Name("ICCBased"), IccStream([N |-> Num(2), Alternate |-> Arr(<<Name("Pattern")>>)])>>),
    Arr(<<Name("Pattern"), Name("DeviceGray")>>),
    Arr(<<Name("I"), SeparationArray, Num(2), Stream([Length |-> Num(4)], <<10, 20, 30, 40>>)>>),
    DeviceNArray,
    Arr(<<Name("Lab"), Dict([Range |-> Nums(<<0, FP, 0, FP>>)])>>),
    Arr(<<Name("Unknown")>>),
    Num(7),
    Arr(<<Name("Indexed"), Name("DeviceGray"), Num(1), Num(5)>>)>>

DescIds == 1..Len(Descriptors)

(***************************************************************************)
(* ColorSpace._parse.  The parser's own state is threaded through the      *)
(* recursion as st = [nextId, sing, made]; a result is                     *)
(*   [ex, inst, st, n]: the exception ("none": returned inst), the state   *)
(*   after the call, and the number of _parse invocations it took.         *)
(* An instance is [id, cs]: the identity of the object and its fields.     *)
(***************************************************************************)
NoInst == [id |-> 0]

\* `new C(...)`: the next object identity
Alloc(st, cs) ==
  [st |-> [st EXCEPT !.nextId = @ + 1],
   inst |-> [id |-> st.nextId + 1, cs |-> cs]]

DeviceCS(fam) ==
  CASE fam = "gray" -> DeviceGrayCS
    [] fam = "rgb" -> DeviceRgbCS
    [] fam = "cmyk" -> DeviceCmykCS

\* a getter without shadow(): a new instance on every access
SingletonsUnshadowed(st, fam) ==
  LET a == Alloc(st, DeviceCS(fam))
  IN [st |-> [a.st EXCEPT !.sing[fam] = a.inst, !.made[fam] = @ + 1],
      inst |-> a.inst]

\* ColorSpace.singletons.gray / .rgb / .cmyk: shadow() replaces the getter by
\* the value the first access constructs
Singletons(st, fam) ==
  IF st.sing[fam].id # 0
    THEN [st |-> st, inst |-> st.sing[fam]]
    ELSE LET a == Alloc(st, DeviceCS(fam))
         IN [st |-> [a.st EXCEPT !.sing[fam] = a.inst, !.made[fam] = @ + 1],
             inst |-> a.inst]

Thrown(e, st, n) == [ex |-> e, inst |-> NoInst, st |-> st, n |-> n]

Returns(a, n) == [ex |-> "none", inst |-> a.inst, st |-> a.st, n |-> n]

\* the result of a nested _parse seen from its caller, itself one invocation
Nested(r) == [r EXCEPT !.n = @ + 1]

\* `return new C(...)` where the constructor gave c
Construct(c, st, n) ==
  IF c.ex # "none" THEN Thrown(c.ex, st, n) ELSE Returns(Alloc(st, c.v), n)

\* the device family a name selects in the two switch statements
DeviceFamily(name) ==
  CASE name \in {"G", "DeviceGray"} -> "gray"
    [] name \in {"RGB", "DeviceRGB"} -> "rgb"
    [] name \in {"CMYK", "DeviceCMYK"} -> "cmyk"
    [] OTHER -> "none"

\* the recursion depth at which the engine throws RangeError
MaxDepth == 10

\* pdfFunctionFactory.create(fn): the tint function of a function object
CreateTintFn(fn) == IF fn.t = "Fn" THEN Ok(fn.k) ELSE Throw("FormatError")

RECURSIVE _parse(_, _, _, _, _)
RECURSIVE ParseObject(_, _, _, _, _)

\* the ICCBased case without the numComps check: the Alternate is always used
ParseICCBasedAnyAlternate(cs, resources, ld, st, depth) ==
  LET dict == At(cs, 1).dict
      alt == DictGet(dict, "Alternate", ld)
      N == DictGet(dict, "N", ld).v.v
      altCS == IF Truthy(alt.v)
                 THEN Nested(_parse(alt.v, resources, ld, st, depth - 1))
                 ELSE Thrown("none", st, 1)
  IN IF altCS.ex # "none" \/ Truthy(alt.v) THEN altCS
     ELSE IF N = 1 THEN Returns(Singletons(st, "gray"), 1)
     ELSE IF N = 3 THEN Returns(Singletons(st, "rgb"), 1)
     ELSE IF N = 4 THEN Returns(Singletons(st, "cmyk"), 1)
     ELSE Thrown("FormatError", st, 1)

\* the ICCBased case of _parse
ParseICCBased(cs, resources, ld, st, depth) ==
  LET stream == FetchIfRef(At(cs, 1), ld)
  IN IF stream.ex # "none" THEN Thrown(stream.ex, st, 1)
     ELSE IF stream.v.t # "Stream" THEN Thrown("TypeError", st, 1)
     ELSE
     LET dict == stream.v.dict
         numComps == DictGet(dict, "N", ld)
         alt == DictGet(dict, "Alternate", ld)
     IN IF numComps.ex # "none" THEN Thrown(numComps.ex, st, 1)
        ELSE IF alt.ex # "none" THEN Thrown(alt.ex, st, 1)
        ELSE
        LET N == IF numComps.v.t = "Num" THEN numComps.v.v ELSE 0
            altCS == IF Truthy(alt.v)
                       THEN Nested(_parse(alt.v, resources, ld, st, depth - 1))
                       ELSE Thrown("none", st, 1)
            st2 == altCS.st
        IN IF altCS.ex # "none" THEN altCS
           ELSE IF Truthy(alt.v) /\ altCS.inst.cs.numComps = N THEN altCS
           ELSE IF N = 1 THEN Returns(Singletons(st2, "gray"), altCS.n)
           ELSE IF N = 3 THEN Returns(Singletons(st2, "rgb"), altCS.n)
           ELSE IF N = 4 THEN Returns(Singletons(st2, "cmyk"), altCS.n)
           ELSE Thrown("FormatError", st2, altCS.n)

\* the cases of _parse that read a parameter dictionary from cs[1]
ParseCalibrated(mode, cs, ld, st) ==
  LET params == FetchIfRef(At(cs, 1), ld)
  IN IF params.ex # "none" THEN Thrown(params.ex, st, 1)
     ELSE IF ~IsDict(params.v) THEN Thrown("TypeError", st, 1)
     ELSE
     LET whitePoint == DictGet(params.v, "WhitePoint", ld)
         blackPoint == DictGet(params.v, "BlackPoint", ld)
         gamma == DictGet(params.v, "Gamma", ld)
         matrix == DictGet(params.v, "Matrix", ld)
         range == DictGet(params.v, "Range", ld)
     IN IF whitePoint.ex # "none" THEN Thrown(whitePoint.ex, st, 1)
        ELSE IF blackPoint.ex # "none" THEN Thrown(blackPoint.ex, st, 1)
        ELSE CASE mode = "CalGray" ->
                    IF gamma.ex # "none" THEN Thrown(gamma.ex, st, 1)
                    ELSE Construct(CalGrayCS(whitePoint.v, blackPoint.v, gamma.v), st, 1)
               [] mode = "CalRGB" ->
                    IF gamma.ex # "none" THEN Thrown(gamma.ex, st, 1)
                    ELSE IF matrix.ex # "none" THEN Thrown(matrix.ex, st, 1)
                    ELSE Construct(CalRGBCS(whitePoint.v, blackPoint.v, gamma.v, matrix.v),
                                   st, 1)
               [] mode = "Lab" ->
                    IF range.ex # "none" THEN Thrown(range.ex, st, 1)
                    ELSE Construct(LabCS(whitePoint.v, blackPoint.v, range.v), st, 1)

\* the Indexed case without the `+ 1`: hival itself is the highVal
ParseIndexedNoIncrement(cs, resources, ld, st, depth) ==
  LET baseCS == Nested(_parse(At(cs, 1), resources, ld, st, depth - 1))
      hi == FetchIfRef(At(cs, 2), ld)
      lookup == FetchIfRef(At(cs, 3), ld)
  IN IF baseCS.ex # "none" THEN baseCS
     ELSE IF hi.ex # "none" THEN Thrown(hi.ex, baseCS.st, baseCS.n)
     ELSE IF lookup.ex # "none" THEN Thrown(lookup.ex, baseCS.st, baseCS.n)
     ELSE Construct(IndexedCS(baseCS.inst.cs,
                              (IF hi.v.t = "Num" THEN hi.v.v ELSE 0), lookup.v),
                    baseCS.st, baseCS.n)

\* the Indexed case of _parse
ParseIndexed(cs, resources, ld, st, depth) ==
  LET baseCS == Nested(_parse(At(cs, 1), resources, ld, st, depth - 1))
      hi == FetchIfRef(At(cs, 2), ld)
      lookup == FetchIfRef(At(cs, 3), ld)
  IN IF baseCS.ex # "none" THEN baseCS
     ELSE IF hi.ex # "none" THEN Thrown(hi.ex, baseCS.st, baseCS.n)
     ELSE IF lookup.ex # "none" THEN Thrown(lookup.ex, baseCS.st, baseCS.n)
     ELSE Construct(IndexedCS(baseCS.inst.cs,
                              (IF hi.v.t = "Num" THEN hi.v.v ELSE 0) + 1, lookup.v),
                    baseCS.st, baseCS.n)

\* the Separation / DeviceN case of _parse
ParseAlternate(cs, resources, ld, st, depth) ==
  LET name == FetchIfRef(At(cs, 1), ld)
  IN IF name.ex # "none" THEN Thrown(name.ex, st, 1)
     ELSE
     LET numComps == IF IsArray(name.v) THEN Len(name.v.a) ELSE 1
         baseCS == Nested(_parse(At(cs, 2), resources, ld, st, depth - 1))
         tintFn == CreateTintFn(At(cs, 3))
     IN IF baseCS.ex # "none" THEN baseCS
        ELSE IF tintFn.ex # "none" THEN Thrown(tintFn.ex, baseCS.st, baseCS.n)
        ELSE Returns(Alloc(baseCS.st, AlternateCS(numComps, baseCS.inst.cs, tintFn.v)),
                     baseCS.n)

\* the Pattern case of _parse (array form)
ParsePattern(cs, resources, ld, st, depth) ==
  IF ~Truthy(At(cs, 1))
    THEN Returns(Alloc(st, PatternCS(FALSE, Undef)), 1)
    ELSE LET baseCS == Nested(_parse(At(cs, 1), resources, ld, st, depth - 1))
         IN IF baseCS.ex # "none" THEN baseCS
            ELSE Returns(Alloc(baseCS.st, PatternCS(TRUE, baseCS.inst.cs)), baseCS.n)

\* _parse from `if (Array.isArray(cs))` on: cs is resolved and is no name the
\* first switch returned for
ParseObject(cs, resources, ld, st, depth) ==
  IF ~IsArray(cs) THEN Thrown("FormatError", st, 1)
  ELSE
  LET first == FetchIfRef(At(cs, 0), ld)
  IN IF first.ex # "none" THEN Thrown(first.ex, st, 1)
     ELSE IF first.v.t = "Undef" THEN Thrown("TypeError", st, 1)
     ELSE
     LET mode == IF IsName(first.v) THEN first.v.name ELSE "undefined"
     IN CASE DeviceFamily(mode) # "none" -> Returns(Singletons(st, DeviceFamily(mode)), 1)
          [] mode \in {"CalGray", "CalRGB", "Lab"} -> ParseCalibrated(mode, cs, ld, st)
          [] mode = "ICCBased" -> ParseICCBased(cs, resources, ld, st, depth)
          [] mode = "Pattern" -> ParsePattern(cs, resources, ld, st, depth)
          [] mode \in {"I", "Indexed"} -> ParseIndexed(cs, resources, ld, st, depth)
          [] mode \in {"Separation", "DeviceN"} -> ParseAlternate(cs, resources, ld, st, depth)
          [] OTHER -> Thrown("FormatError", st, 1)

\* ColorSpace._parse(cs, xref, resources, pdfFunctionFactory)
_parse(cs0, resources, ld, st, depth) ==
  IF depth = 0 THEN Thrown("RangeError", st, 1)
  ELSE
  LET f == FetchIfRef(cs0, ld)
  IN IF f.ex # "none" THEN Thrown(f.ex, st, 1)
     ELSE
     LET cs == f.v
     IN IF ~IsName(cs) THEN ParseObject(cs, resources, ld, st, depth)
        ELSE IF DeviceFamily(cs.name) # "none"
          THEN Returns(Singletons(st, DeviceFamily(cs.name)), 1)
        ELSE IF cs.name = "Pattern"
          THEN Returns(Alloc(st, PatternCS(FALSE, Undef)), 1)
        ELSE
        LET colorSpaces == IF IsDict(resources)
                             THEN DictGet(resources, "ColorSpace", ld)
                             ELSE Ok(Undef)
            resourcesCS == IF colorSpaces.ex = "none" /\ IsDict(colorSpaces.v)
                             THEN DictGet(colorSpaces.v, cs.name, ld)
                             ELSE Ok(Undef)
        IN IF colorSpaces.ex # "none" THEN Thrown(colorSpaces.ex, st, 1)
           ELSE IF resourcesCS.ex # "none" THEN Thrown(resourcesCS.ex, st, 1)
           ELSE IF ~Truthy(resourcesCS.v) THEN Thrown("FormatError", st, 1)
           ELSE IF IsName(resourcesCS.v)
             THEN Nested(_parse(resourcesCS.v, resources, ld, st, depth - 1))
           ELSE ParseObject(resourcesCS.v, resources, ld, st, depth)

(***************************************************************************)
(* The colour-space cache handed to parse (localColorSpaceCache).  Its     *)
(* class is outside the modelled files; it is modelled from the interface  *)
(* the specification gives: getByRef, getByName, set(name?, ref?, space),  *)
(* a miss returns nothing, a set is idempotent on (name, ref).             *)
(***************************************************************************)
\* the names a Name object of the document can carry
NameKeys == {"DeviceGray", "RGB", "Pattern", "Foo", "", "Alias", "Nope", "Loop"}

EmptyCache == [byRef |-> [n \in RefNums |-> NoInst], byName |-> [k \in NameKeys |-> NoInst]]

\* localColorSpaceCache.getByRef(ref)
CacheGetByRef(c, ref) == c.byRef[ref.num]

\* localColorSpaceCache.getByName(name)
CacheGetByName(c, name) == c.byName[name]

\* localColorSpaceCache.set(name, ref, data); name / ref may be undefined
CacheSet(c, hasName, name, hasRef, ref, data) ==
  IF hasRef
    THEN IF c.byRef[ref.num].id # 0 THEN c
         ELSE [byRef |-> [c.byRef EXCEPT ![ref.num] = data],
               byName |-> IF hasName THEN [c.byName EXCEPT ![name] = data]
                          ELSE c.byName]
    ELSE IF c.byName[name].id # 0 THEN c
         ELSE [c EXCEPT !.byName[name] = data]

(***************************************************************************)
(* ColorSpace.getCached and ColorSpace._cache.  Both report the calls they *)
(* make on the cache: gets / sets are the sequences of those calls.        *)
(***************************************************************************)
\* getCached with the catch clause swallowing every exception
GetCachedSwallowAll(cacheKey, ld, c, withCache) ==
  IF ~withCache THEN [ex |-> "Error", inst |-> NoInst, gets |-> <<>>]
  ELSE
  LET byRef == IF IsRef(cacheKey) THEN CacheGetByRef(c, cacheKey) ELSE NoInst
      f == IF IsRef(cacheKey) THEN Fetch(cacheKey, ld) ELSE Ok(cacheKey)
      key == IF f.ex = "none" THEN f.v ELSE cacheKey
      g1 == IF IsRef(cacheKey) THEN <<"getByRef">> ELSE <<>>
  IN IF byRef.id # 0 THEN [ex |-> "none", inst |-> byRef, gets |-> g1]
     ELSE IF IsName(key)
       THEN [ex |-> "none", inst |-> CacheGetByName(c, key.name),
             gets |-> g1 \o <<"getByName">>]
     ELSE [ex |-> "none", inst |-> NoInst, gets |-> g1]

\* ColorSpace.getCached(cacheKey, xref, localColorSpaceCache);
\* inst = NoInst stands for the null it returns on a miss
\* getCached looking up references only
GetCachedByRefOnly(cacheKey, ld, c, withCache) ==
  IF ~withCache THEN [ex |-> "Error", inst |-> NoInst, gets |-> <<>>]
  ELSE
  LET byRef == IF IsRef(cacheKey) THEN CacheGetByRef(c, cacheKey) ELSE NoInst
      f == IF IsRef(cacheKey) THEN Fetch(cacheKey, ld) ELSE Ok(cacheKey)
      g1 == IF IsRef(cacheKey) THEN <<"getByRef">> ELSE <<>>
  IN IF byRef.id # 0 THEN [ex |-> "none", inst |-> byRef, gets |-> g1]
     ELSE IF f.ex = "MissingDataException"
       THEN [ex |-> f.ex, inst |-> NoInst, gets |-> g1]
     ELSE [ex |-> "none", inst |-> NoInst, gets |-> g1]

GetCached(cacheKey, ld, c, withCache) ==
  IF ~withCache THEN [ex |-> "Error", inst |-> NoInst, gets |-> <<>>]
  ELSE
  LET byRef == IF IsRef(cacheKey) THEN CacheGetByRef(c, cacheKey) ELSE NoInst
      f == IF IsRef(cacheKey) THEN Fetch(cacheKey, ld) ELSE Ok(cacheKey)
      key == IF f.ex = "none" THEN f.v ELSE cacheKey
      g1 == IF IsRef(cacheKey) THEN <<"getByRef">> ELSE <<>>
  IN IF byRef.id # 0 THEN [ex |-> "none", inst |-> byRef, gets |-> g1]
     ELSE IF f.ex = "MissingDataException"
       THEN [ex |-> f.ex, inst |-> NoInst, gets |-> g1]
     ELSE IF IsName(key)
       THEN [ex |-> "none", inst |-> CacheGetByName(c, key.name),
             gets |-> g1 \o <<"getByName">>]
     ELSE [ex |-> "none", inst |-> NoInst, gets |-> g1]

\* one localColorSpaceCache.set call, as _cache makes it
SetCall(hasName, name, hasRef, ref, data) ==
  [hasName |-> hasName, name |-> name, hasRef |-> hasRef, ref |-> ref, id |-> data.id]

\* ColorSpace._cache(cacheKey, xref, localColorSpaceCache, parsedColorSpace)
_cache(cacheKey, ld, c, withCache, parsedColorSpace) ==
  IF ~withCache \/ parsedColorSpace.id = 0
    THEN [ex |-> "Error", cache |-> c, sets |-> <<>>]
  ELSE
  LET hasRef == IsRef(cacheKey)
      f == IF hasRef THEN Fetch(cacheKey, ld) ELSE Ok(cacheKey)
  IN IF f.ex # "none" THEN [ex |-> f.ex, cache |-> c, sets |-> <<>>]
     ELSE
     LET isName == IsName(f.v)
         csName == IF isName THEN f.v.name ELSE ""
         csRef == IF hasRef THEN cacheKey.num ELSE 0
     IN IF (isName /\ csName # "") \/ hasRef
          THEN [ex |-> "none",
                cache |-> CacheSet(c, isName, csName, hasRef, cacheKey, parsedColorSpace),
                sets |-> <<SetCall(isName, csName, hasRef, csRef, parsedColorSpace)>>]
          ELSE [ex |-> "none", cache |-> c, sets |-> <<>>]

(***************************************************************************)
(* The operations of the parser: parse, parseAsync, getCached, and what    *)
(* the surroundings do between calls (the xref loads data, the caller      *)
(* starts a new cache).                                                    *)
(***************************************************************************)
\* the number of parser calls a behaviour makes
MaxCalls == 2

\* the descriptors the cache can key: references and names
Cacheable(d) == IsRef(Descriptors[d]) \/ IsName(Descriptors[d])

CacheableIds == {d \in DescIds : Cacheable(d)}

\* the resources a descriptor is parsed with: a name the parser looks up in
\* resources.ColorSpace is parsed with the dictionary that holds it, /Foo (and
\* the reference to it) with every resources argument, the rest with null
ResourcesFor(d) ==
  CASE Descriptors[d] \in {Name("Foo"), Ref(1)} -> 1..Len(ResourcesList)
    [] Descriptors[d] \in {Name(""), Name("Alias"), Name("Loop")} -> {2}
    [] OTHER -> {1}

\* the arguments of a parse / parseAsync call: the descriptor, the resources
\* and whether a cache is passed (the call without one is made for one
\* reference)
Requests ==
  {q \in [d : DescIds, r : 1..Len(ResourcesList), withCache : BOOLEAN] :
     /\ q.r \in ResourcesFor(q.d)
     /\ q.withCache \/ (q.r = 1 /\ Descriptors[q.d] = Ref(2))}

\* the arguments of the parseAsync calls: the names and references, each with
\* one resources argument (the reference to /Foo also with the dictionary
\* that holds /Foo), and one inline array
AsyncRequests ==
  {q \in Requests :
     /\ q.withCache
     /\ Cacheable(q.d) \/ Descriptors[q.d] = Arr(<<Name("CMYK")>>)
     /\ \/ \A r \in ResourcesFor(q.d) : q.r <= r
        \/ Descriptors[q.d] = Ref(1) /\ q.r = 2}

\* the keys getCached is called with directly: every reference, one name and
\* one inline array
CachedKeys ==
  {d \in DescIds :
     IsRef(Descriptors[d]) \/ Descriptors[d] \in {Name("Foo"), Arr(<<Name("CMYK")>>)}}

NoRequest == [d |-> 0, r |-> 0, withCache |-> TRUE]

ParserState == [nextId |-> nextId, sing |-> sing, made |-> made]

NoConv == [op |-> "none"]

Idle == [op |-> "init", q |-> NoRequest, ex |-> "none", id |-> 0, inst |-> NoInst,
         hit |-> FALSE, nparse |-> 0, gets |-> <<>>, sets |-> <<>>]

Init ==
  /\ cache = EmptyCache
  /\ nextId = 0
  /\ sing = [gray |-> NoInst, rgb |-> NoInst, cmyk |-> NoInst]
  /\ made = [gray |-> 0, rgb |-> 0, cmyk |-> 0]
  /\ loaded = RefNums \ LateRefs
  /\ returned = [d \in CacheableIds |-> 0]
  /\ last = Idle
  /\ build \in {"dev", "production"}
  /\ calls = 0
  /\ conv = NoConv

\* _parse, then _cache, with the cache written whether or not _parse threw:
\* on a throw the key is left holding the last object under construction
ParseAndCacheEarly(op, q, g) ==
  LET cs == Descriptors[q.d]
      p == _parse(cs, ResourcesList[q.r], loaded, ParserState, MaxDepth)
      got == IF p.ex = "none" THEN p.inst ELSE [id |-> p.st.nextId + 1, cs |-> DeviceGrayCS]
      c == _cache(cs, loaded, cache, q.withCache, got)
  IN /\ nextId' = p.st.nextId
     /\ sing' = p.st.sing
     /\ made' = p.st.made
     /\ last' = [op |-> op, q |-> q, ex |-> IF p.ex # "none" THEN p.ex ELSE c.ex,
                 id |-> IF p.ex = "none" /\ c.ex = "none" THEN p.inst.id ELSE 0,
                 inst |-> IF p.ex = "none" /\ c.ex = "none" THEN p.inst ELSE NoInst,
                 hit |-> FALSE, nparse |-> p.n, gets |-> g.gets, sets |-> c.sets]
     /\ cache' = c.cache
     /\ returned' = IF p.ex = "none" /\ c.ex = "none" /\ op = "parse" /\ Cacheable(q.d)
                      THEN [returned EXCEPT ![q.d] = p.inst.id]
                      ELSE returned

\* the part of parse and parseAsync after the cache check: _parse, then _cache
ParseAndCache(op, q, g) ==
  LET cs == Descriptors[q.d]
      p == _parse(cs, ResourcesList[q.r], loaded, ParserState, MaxDepth)
      c == _cache(cs, loaded, cache, q.withCache, p.inst)
  IN /\ nextId' = p.st.nextId
     /\ sing' = p.st.sing
     /\ made' = p.st.made
     /\ IF p.ex # "none"
          THEN /\ last' = [op |-> op, q |-> q, ex |-> p.ex, id |-> 0, inst |-> NoInst,
                           hit |-> FALSE, nparse |-> p.n, gets |-> g.gets, sets |-> <<>>]
               /\ UNCHANGED <<cache, returned>>
          ELSE /\ last' = [op |-> op, q |-> q, ex |-> c.ex,
                           id |-> IF c.ex = "none" THEN p.inst.id ELSE 0,
                           inst |-> IF c.ex = "none" THEN p.inst ELSE NoInst,
                           hit |-> FALSE, nparse |-> p.n, gets |-> g.gets, sets |-> c.sets]
               /\ cache' = c.cache
               /\ returned' = IF c.ex = "none" /\ op = "parse" /\ Cacheable(q.d)
                                THEN [returned EXCEPT ![q.d] = p.inst.id]
                                ELSE returned

\* a call that ended in getCached: thrown out of it, or answered from the cache
EndedInGetCached(op, q, ex, g) ==
  /\ last' = [op |-> op, q |-> q, ex |-> ex,
              id |-> IF ex = "none" THEN g.inst.id ELSE 0,
              inst |-> IF ex = "none" THEN g.inst ELSE NoInst,
              hit |-> ex = "none" /\ g.inst.id # 0,
              nparse |-> 0, gets |-> g.gets, sets |-> <<>>]
  /\ returned' = IF ex = "none" /\ op = "parse"
                   THEN [returned EXCEPT ![q.d] = g.inst.id]
                   ELSE returned
  /\ UNCHANGED <<cache, nextId, sing, made>>

\* ColorSpace.parse({cs, xref, resources, pdfFunctionFactory, localColorSpaceCache})
Parse(q) ==
  LET g == GetCached(Descriptors[q.d], loaded, cache, q.withCache)
  IN /\ calls < MaxCalls
     /\ calls' = calls + 1
     /\ IF g.ex # "none" THEN EndedInGetCached("parse", q, g.ex, g)
        ELSE IF g.inst.id # 0 THEN EndedInGetCached("parse", q, "none", g)
        ELSE ParseAndCache("parse", q, g)
     /\ UNCHANGED <<loaded, build, conv>>

\* parseAsync with the assertion compiled out of every build
ParseAsyncNoAssert(q) ==
  /\ calls < MaxCalls
  /\ calls' = calls + 1
  /\ ParseAndCache("parseAsync", q, [ex |-> "none", inst |-> NoInst, gets |-> <<>>])
  /\ UNCHANGED <<loaded, build, conv>>

\* ColorSpace.parseAsync({...}); ex is what the promise it returns is rejected
\* with.  The getCached assertion is compiled in unless the build is a
\* production build.
ParseAsync(q) ==
  LET g == IF build = "dev"
             THEN GetCached(Descriptors[q.d], loaded, cache, q.withCache)
             ELSE [ex |-> "none", inst |-> NoInst, gets |-> <<>>]
  IN /\ calls < MaxCalls
     /\ calls' = calls + 1
     /\ IF g.ex # "none" THEN EndedInGetCached("parseAsync", q, g.ex, g)
        ELSE IF g.inst.id # 0
          THEN EndedInGetCached("parseAsync", q, "AssertionError", g)
        ELSE ParseAndCache("parseAsync", q, g)
     /\ UNCHANGED <<loaded, build, conv>>

\* a direct call of ColorSpace.getCached(cacheKey, xref, localColorSpaceCache)
GetCachedCall(d) ==
  LET g == GetCached(Descriptors[d], loaded, cache, TRUE)
  IN /\ calls < MaxCalls
     /\ calls' = calls + 1
     /\ EndedInGetCached("getCached", [d |-> d, r |-> 0, withCache |-> TRUE], g.ex, g)
     /\ UNCHANGED <<loaded, build, conv>>

\* the xref receives the data of a reference
LoadData(n) ==
  /\ n \notin loaded
  /\ loaded' = loaded \cup {n}
  /\ last' = [Idle EXCEPT !.op = "load"]
  /\ UNCHANGED <<cache, nextId, sing, made, returned, build, calls, conv>>

\* the caller goes on with a fresh, empty cache
NewCache ==
  /\ cache # EmptyCache
  /\ cache' = EmptyCache
  /\ returned' = [d \in CacheableIds |-> 0]
  /\ last' = [Idle EXCEPT !.op = "newCache"]
  /\ UNCHANGED <<nextId, sing, made, loaded, build, calls, conv>>

Next ==
  \/ \E q \in Requests : Parse(q)
  \/ \E q \in AsyncRequests : ParseAsync(q)
  \/ \E d \in CachedKeys : GetCachedCall(d)
  \/ \E n \in RefNums : LoadData(n)
  \/ NewCache

Spec == Init /\ [][Next]_vars


(***************************************************************************)
(* Numbers and typed arrays of the conversion routines.  A JavaScript      *)
(* number is an integer in units of 1/FP; NaN (what arithmetic on an       *)
(* undefined array element gives) is a value of its own.  A source array   *)
(* is a sequence of such numbers; a Uint8ClampedArray / Uint8Array is a    *)
(* sequence of bytes.  Float32Array rounding is not modelled.              *)
(***************************************************************************)
NaN == -999999999

\* a / b for b > 0, rounded to the nearest unit
RDiv(a, b) == (2 * a + b) \div (2 * b)

\* the product of two numbers
Mul(a, b) == RDiv(a * b, FP)

\* src[i] as a number, i counted from 0: NaN when there is no element i
Rd(src, i) == IF i >= 0 /\ i < Len(src) THEN src[i + 1] ELSE NaN

\* a typed array given element by element, as the tuple of its elements
TypedArray(f) == SubSeq(f, 1, Len(f))

\* the conversion of a number stored into a Uint8ClampedArray: NaN gives 0,
\* the value is clamped to [0, 255] and rounded, a tie to the even byte
ToUint8Clamp(x) ==
  IF x = NaN \/ x <= 0 THEN 0
  ELSE IF x >= 255 * FP THEN 255
  ELSE LET n == x \div FP
           f == x % FP
       IN IF 2 * f > FP \/ (2 * f = FP /\ n % 2 = 1) THEN n + 1 ELSE n

\* dest[i] = x on a Uint8ClampedArray: a write past the end is ignored
Wr(dest, i, x) ==
  IF i >= 0 /\ i < Len(dest) THEN [dest EXCEPT ![i + 1] = ToUint8Clamp(x)] ELSE dest

\* three consecutive writes dest[i], dest[i + 1], dest[i + 2]
Wr3(dest, i, rgb) == Wr(Wr(Wr(dest, i, rgb[1]), i + 1, rgb[2]), i + 2, rgb[3])

\* a byte array read as a source array
AsNumbers(bytes) == TypedArray([i \in 1..Len(bytes) |-> bytes[i] * FP])

\* new Uint8ClampedArray(n)
Zeros(n) == TypedArray([i \in 1..n |-> 0])

\* 1 << bits
Shl1(bits) == 2 ^ bits

\* the divisor d of `scale = 1 / ((1 << bits) - 1)`: x * scale is x / d
ScaleOffByOne(bits) == Shl1(bits)

ScaleDen(bits) == Shl1(bits) - 1

\* src[i] * scale, with scale = 1 / den
Scaled(x, den) == IF x = NaN THEN NaN ELSE RDiv(x, den)

\* the largest r in lo..hi with r * r <= x, found by bisection
RECURSIVE ISqrtIn(_, _, _)
ISqrtIn(x, lo, hi) ==
  IF lo >= hi THEN lo
  ELSE LET mid == (lo + hi + 1) \div 2
       IN IF mid * mid <= x THEN ISqrtIn(x, mid, hi) ELSE ISqrtIn(x, lo, mid - 1)

\* Math.sqrt(x), NaN for a negative x; a root above 2 is given as 2 (it is
\* stored as the byte 255 either way)
Sqrt(x) == IF x = NaN \/ x < 0 THEN NaN ELSE ISqrtIn(x * FP, 0, 2 * FP)

\* the largest r in lo..hi with r * r * r <= x, found by bisection
RECURSIVE ICbrtIn(_, _, _)
ICbrtIn(x, lo, hi) ==
  IF lo >= hi THEN lo
  ELSE LET mid == (lo + hi + 1) \div 2
       IN IF mid * mid * mid <= x THEN ICbrtIn(x, mid, hi) ELSE ICbrtIn(x, lo, mid - 1)

\* x ** (1 / 3) for 0 <= x <= 1
Cbrt(x) == IF x = NaN \/ x < 0 THEN NaN ELSE ICbrtIn(x * FP * FP, 0, FP)

\* x ** g for a gamma g that is a whole number of units
RECURSIVE PowInt(_, _)
PowInt(x, n) == IF n = 0 THEN FP ELSE Mul(x, PowInt(x, n - 1))

Pow(x, g) == IF x = NaN THEN NaN ELSE PowInt(x, g \div FP)

(***************************************************************************)
(* The conversion kernels: what one sample becomes, as the three numbers   *)
(* the code stores into dest.  Decimal constants are rounded to 1/FP.      *)
(***************************************************************************)
\* x * k for a whole number k
Times(x, k) == IF x = NaN THEN NaN ELSE x * k

AnyNaN(xs) == \E i \in 1..Len(xs) : xs[i] = NaN

AllNaN == <<NaN, NaN, NaN>>

\* adjustToRange(0, 1, value) == Math.max(0, Math.min(1, value))
adjustToRange(value) ==
  IF value = NaN THEN NaN
  ELSE IF value > FP THEN FP
  ELSE IF value < 0 THEN 0
  ELSE value

RECURSIVE GCD(_, _)
GCD(a, b) == IF b = 0 THEN a ELSE GCD(b, a % b)

\* scale * x with scale = 255 / ((1 << bits) - 1), the quotient in lowest terms
Scale255(x, bits) ==
  IF x = NaN THEN NaN
  ELSE LET g == GCD(255, ScaleDen(bits))
       IN RDiv(x * (255 \div g), ScaleDen(bits) \div g)

\* the conversion by the complements, 255 (1 - c) (1 - k) and so on, in
\* place of the polynomials
CmykToRgbByComplement(src, srcOffset, den) ==
  LET c == Scaled(Rd(src, srcOffset), den)
      m == Scaled(Rd(src, srcOffset + 1), den)
      y == Scaled(Rd(src, srcOffset + 2), den)
      k == Scaled(Rd(src, srcOffset + 3), den)
  IN IF AnyNaN(<<c, m, y, k>>) THEN AllNaN
     ELSE <<255 * Mul(FP - c, FP - k), 255 * Mul(FP - m, FP - k), 255 * Mul(FP - y, FP - k)>>

\* DeviceCmykCS: convertToRgb(src, srcOffset, srcScale, dest, destOffset)
CmykToRgb(src, srcOffset, den) ==
  LET c == Scaled(Rd(src, srcOffset), den)
      m == Scaled(Rd(src, srcOffset + 1), den)
      y == Scaled(Rd(src, srcOffset + 2), den)
      k == Scaled(Rd(src, srcOffset + 3), den)
  IN IF AnyNaN(<<c, m, y, k>>) THEN AllNaN
     ELSE
     <<255 * FP
         + Mul(c, Mul(-4387, c) + Mul(54486, m) + Mul(18823, y) + Mul(212257, k) - 285233)
         + Mul(m, Mul(1715, m) - Mul(5610, y) - Mul(17874, k) - 5497)
         + Mul(y, Mul(-2522, y) - Mul(21249, k) + 17512)
         + Mul(k, Mul(-21861, k) - 189482),
       255 * FP
         + Mul(c, Mul(8841, c) + Mul(60118, m) + Mul(6871, y) + Mul(31159, k) - 79297)
         + Mul(m, Mul(-15310, m) + Mul(17575, y) + Mul(131353, k) - 190945)
         + Mul(y, Mul(4444, y) + Mul(9863, k) - 24867)
         + Mul(k, Mul(-20737, k) - 187805),
       255 * FP
         + Mul(c, Mul(884, c) + Mul(8079, m) + Mul(30900, y) - Mul(239, k) - 14184)
         + Mul(m, Mul(10496, m) + Mul(63024, y) + Mul(50607, k) - 112239)
         + Mul(y, Mul(33, y) + Mul(115604, k) - 193582)
         + Mul(k, Mul(-22338, k) - 180126)>>

\* convertToRgb taking the black point off the luminance
CalGrayToRgbOverBlack(cs, src, srcOffset, den) ==
  LET A == Scaled(Rd(src, srcOffset), den)
      AG == Pow(A, cs.G)
      L == IF AG = NaN THEN NaN ELSE Mul(cs.YW, AG) + cs.YB
      v == IF L = NaN THEN NaN ELSE Mul(295800, Cbrt(L)) - 40800
      val == IF v = NaN THEN NaN ELSE IF v > 0 THEN v ELSE 0
  IN <<val, val, val>>

\* CalGrayCS: convertToRgb(cs, src, srcOffset, dest, destOffset, scale)
CalGrayToRgb(cs, src, srcOffset, den) ==
  LET A == Scaled(Rd(src, srcOffset), den)
      AG == Pow(A, cs.G)
      L == IF AG = NaN THEN NaN ELSE Mul(cs.YW, AG)
      v == IF L = NaN THEN NaN ELSE Mul(295800, Cbrt(L)) - 40800
      val == IF v = NaN THEN NaN ELSE IF v > 0 THEN v ELSE 0
  IN <<val, val, val>>

\* LabCS: fn_g(x)
fn_g(x) ==
  IF x >= RDiv(6 * FP, 29) THEN Mul(x, Mul(x, x))
  ELSE RDiv(108 * (x - RDiv(4 * FP, 29)), 841)

\* LabCS: decode(value, high1, low2, high2)
decode(value, high1, low2, high2) == low2 + Mul(RDiv(value, high1), high2 - low2)

\* LabCS: convertToRgb(cs, src, srcOffset, maxVal, dest, destOffset);
\* maxVal = 0 stands for the `false` of the item path
LabToRgb(cs, src, srcOffset, maxVal) ==
  LET s == <<Rd(src, srcOffset), Rd(src, srcOffset + 1), Rd(src, srcOffset + 2)>>
  IN IF AnyNaN(s) THEN AllNaN
     ELSE
     LET Ls == IF maxVal # 0 THEN decode(s[1], maxVal, 0, 100 * FP) ELSE s[1]
         a0 == IF maxVal # 0 THEN decode(s[2], maxVal, cs.amin, cs.amax) ELSE s[2]
         b0 == IF maxVal # 0 THEN decode(s[3], maxVal, cs.bmin, cs.bmax) ELSE s[3]
         as == IF a0 > cs.amax THEN cs.amax ELSE IF a0 < cs.amin THEN cs.amin ELSE a0
         bs == IF b0 > cs.bmax THEN cs.bmax ELSE IF b0 < cs.bmin THEN cs.bmin ELSE b0
         M == RDiv(Ls + 16 * FP, 116)
         L == M + RDiv(as, 500)
         N == M - RDiv(bs, 200)
         X == Mul(cs.XW, fn_g(L))
         Y == Mul(cs.YW, fn_g(M))
         Z == Mul(cs.ZW, fn_g(N))
         rgb == IF cs.ZW < FP
                  THEN <<Mul(X, 3134) - Mul(Y, 1617) - Mul(Z, 491),
                         Mul(Y, 1916) - Mul(X, 979) + Mul(Z, 33),
                         Mul(X, 72) - Mul(Y, 229) + Mul(Z, 1406)>>
                  ELSE <<Mul(X, 3241) - Mul(Y, 1537) - Mul(Z, 499),
                         Mul(Y, 1876) - Mul(X, 969) + Mul(Z, 42),
                         Mul(X, 56) - Mul(Y, 204) + Mul(Z, 1057)>>
     IN <<Times(Sqrt(rgb[1]), 255), Times(Sqrt(rgb[2]), 255), Times(Sqrt(rgb[3]), 255)>>

(***************************************************************************)
(* CalRGBCS.  The three module-level scratch vectors (tempNormalizeMatrix, *)
(* tempConvertMatrix1, tempConvertMatrix2) are written in full before they *)
(* are read in every step, so each step is a function of its input.        *)
(***************************************************************************)
BRADFORD_SCALE_MATRIX == <<895, 266, -161, -750, 1714, 37, 39, -69, 1030>>

BRADFORD_SCALE_INVERSE_MATRIX == <<987, -147, 160, 432, 518, 49, -9, 40, 968>>

SRGB_D65_XYZ_TO_RGB_MATRIX == <<3240, -1537, -499, -969, 1876, 42, 56, -204, 1057>>

FLAT_WHITEPOINT_MATRIX == <<FP, FP, FP>>

\* a / b for two numbers, b > 0
Quot(a, b) == RDiv(a * FP, b)

\* ((8 + 16) / 116) ** 3 / 8.0
DECODE_L_CONSTANT == RDiv(PowInt(Quot(24 * FP, 116 * FP), 3), 8)

matrixProduct(a, b) ==
  <<Mul(a[1], b[1]) + Mul(a[2], b[2]) + Mul(a[3], b[3]),
    Mul(a[4], b[1]) + Mul(a[5], b[2]) + Mul(a[6], b[3]),
    Mul(a[7], b[1]) + Mul(a[8], b[2]) + Mul(a[9], b[3])>>

convertToFlat(sourceWhitePoint, LMS) ==
  [i \in 1..3 |-> Quot(LMS[i], sourceWhitePoint[i])]

convertToD65(sourceWhitePoint, LMS) ==
  <<Quot(Mul(LMS[1], 950), sourceWhitePoint[1]),
    Quot(LMS[2], sourceWhitePoint[2]),
    Quot(Mul(LMS[3], 1089), sourceWhitePoint[3])>>

sRGBTransferFunction(color) ==
  IF color <= 3 THEN adjustToRange(RDiv(1292 * color, 100))
  ELSE IF color >= 996 THEN FP
  ELSE adjustToRange(Mul(1055, PowInt(Sqrt(Sqrt(Cbrt(color))), 5)) - 55)

RECURSIVE decodeL(_)
decodeL(L) ==
  IF L < 0 THEN 0 - decodeL(0 - L)
  ELSE IF L > 8 * FP THEN PowInt(RDiv(L + 16 * FP, 116), 3)
  ELSE Mul(L, DECODE_L_CONSTANT)

compensateBlackPoint(sourceBlackPoint, XYZ_Flat) ==
  IF sourceBlackPoint = <<0, 0, 0>> THEN XYZ_Flat
  ELSE [i \in 1..3 |->
          LET Scale == Quot(FP - decodeL(0), FP - decodeL(sourceBlackPoint[i]))
          IN Mul(XYZ_Flat[i], Scale) + (FP - Scale)]

normalizeWhitePointToFlat(sourceWhitePoint, XYZ_In) ==
  IF sourceWhitePoint[1] = FP /\ sourceWhitePoint[3] = FP THEN XYZ_In
  ELSE matrixProduct(BRADFORD_SCALE_INVERSE_MATRIX,
                     convertToFlat(sourceWhitePoint,
                                   matrixProduct(BRADFORD_SCALE_MATRIX, XYZ_In)))

normalizeWhitePointToD65(sourceWhitePoint, XYZ_In) ==
  matrixProduct(BRADFORD_SCALE_INVERSE_MATRIX,
                convertToD65(sourceWhitePoint,
                             matrixProduct(BRADFORD_SCALE_MATRIX, XYZ_In)))

\* CalRGBCS: convertToRgb(cs, src, srcOffset, dest, destOffset, scale)
CalRgbToRgb(cs, src, srcOffset, den) ==
  LET A == adjustToRange(Scaled(Rd(src, srcOffset), den))
      B == adjustToRange(Scaled(Rd(src, srcOffset + 1), den))
      C == adjustToRange(Scaled(Rd(src, srcOffset + 2), den))
  IN IF AnyNaN(<<A, B, C>>) THEN AllNaN
     ELSE
     LET AGR == IF A = FP THEN FP ELSE Pow(A, cs.GR)
         BGG == IF B = FP THEN FP ELSE Pow(B, cs.GG)
         CGB == IF C = FP THEN FP ELSE Pow(C, cs.GB)
         XYZ == <<Mul(cs.MXA, AGR) + Mul(cs.MXB, BGG) + Mul(cs.MXC, CGB),
                  Mul(cs.MYA, AGR) + Mul(cs.MYB, BGG) + Mul(cs.MYC, CGB),
                  Mul(cs.MZA, AGR) + Mul(cs.MZB, BGG) + Mul(cs.MZC, CGB)>>
         XYZ_Flat == normalizeWhitePointToFlat(cs.whitePoint, XYZ)
         XYZ_Black == compensateBlackPoint(cs.blackPoint, XYZ_Flat)
         XYZ_D65 == normalizeWhitePointToD65(FLAT_WHITEPOINT_MATRIX, XYZ_Black)
         SRGB == matrixProduct(SRGB_D65_XYZ_TO_RGB_MATRIX, XYZ_D65)
     IN <<Times(sRGBTransferFunction(SRGB[1]), 255),
          Times(sRGBTransferFunction(SRGB[2]), 255),
          Times(sRGBTransferFunction(SRGB[3]), 255)>>

(***************************************************************************)
(* Lengths.  getOutputLength works on numbers that `| 0` wraps to 32 bits, *)
(* so a length is a fraction n / d of an integer n kept in two 16-bit      *)
(* halves [hi, lo] (n = hi * 2^16 + lo, hi < 0 for a negative n) and a     *)
(* small positive d.                                                       *)
(***************************************************************************)
Half == 2 ^ 16

Wide(hi, lo) == [hi |-> hi + lo \div Half, lo |-> lo % Half]

\* the length with the small whole value n
Length(n) == [n |-> Wide(0, n), d |-> 1]

\* the whole value of a small length
LengthValue(x) == (x.n.hi * Half + x.n.lo) \div x.d

\* x * k for a small whole k
LMul(x, k) == [n |-> Wide(x.n.hi * k, x.n.lo * k), d |-> x.d]

\* the quotient and the remainder of a wide n >= 0 by a small k > 0
WDivMod(n, k) ==
  LET t == (n.hi % k) * Half + n.lo
  IN [q |-> [hi |-> n.hi \div k, lo |-> t \div k], r |-> t % k]

\* x / k for a small whole k > 0: exact, the fraction kept when k does not
\* divide
LDiv(x, k) ==
  IF x.d = 1 /\ WDivMod(x.n, k).r = 0
    THEN [n |-> WDivMod(x.n, k).q, d |-> 1]
    ELSE [n |-> x.n, d |-> x.d * k]

\* x | 0 for x >= 0: the fraction is dropped, the integer wraps to 32 bits
ToInt32(x) ==
  LET q == WDivMod(x.n, x.d).q
      h == q.hi % Half
  IN [n |-> [hi |-> IF 2 * h >= Half THEN h - Half ELSE h, lo |-> q.lo], d |-> 1]

(***************************************************************************)
(* Tint functions.  The functions pdfFunctionFactory.create makes are      *)
(* outside the modelled files; a tint function is one of four fixed maps   *)
(* from numComps inputs to base.numComps outputs, named by number.         *)
(***************************************************************************)
TintFn(k, src, srcOffset) ==
  LET a == Rd(src, srcOffset)
      b == Rd(src, srcOffset + 1)
  IN CASE k = 1 -> IF a = NaN THEN AllNaN ELSE <<a, FP - a, RDiv(a, 2)>>
       [] k = 2 -> IF a = NaN \/ b = NaN THEN <<NaN, NaN, NaN, NaN>>
                   ELSE <<a, b, 0, Mul(a, b)>>
       [] k = 3 -> IF a = NaN THEN AllNaN ELSE <<100 * a, 40 * a, 0 - 40 * a>>
       [] k = 4 -> IF a = NaN THEN <<NaN>> ELSE <<FP - a>>

(***************************************************************************)
(* The methods of the colour-space classes.  dest is passed in and the     *)
(* dest the call leaves is returned.                                       *)
(***************************************************************************)
\* isPassthrough(bits): true for DeviceRgbCS at 8 bits only
isPassthrough(cs, bits) == cs.name = "DeviceRGB" /\ bits = 8

\* the usesZeroToOneRange getter: false for LabCS only
usesZeroToOneRange(cs) == cs.name # "Lab"

RECURSIVE getOutputLength(_, _, _)
getOutputLength(cs, inputLength, alpha01) ==
  CASE cs.name \in {"DeviceGray", "CalGray"} -> LMul(inputLength, 3 + alpha01)
    [] cs.name \in {"DeviceRGB", "CalRGB", "Lab"} ->
         ToInt32(LDiv(LMul(inputLength, 3 + alpha01), 3))
    [] cs.name = "DeviceCMYK" -> ToInt32(LMul(LDiv(inputLength, 4), 3 + alpha01))
    [] cs.name = "Indexed" ->
         getOutputLength(cs.base, LMul(inputLength, cs.base.numComps), alpha01)
    [] cs.name = "Alternate" ->
         getOutputLength(cs.base,
                         LDiv(LMul(inputLength, cs.base.numComps), cs.numComps),
                         alpha01)

\* the loop storing 255 into the alpha slot it should skip
StorePixelsAndAlpha(dest, destOffset, count, alpha01, px) ==
  LET pixels == TypedArray([p \in 1..count |-> px[p - 1]])
  IN TypedArray([k \in 1..Len(dest) |->
       LET k0 == k - 1 - destOffset
           p == k0 \div (3 + alpha01)
           c == k0 % (3 + alpha01)
       IN IF k0 >= 0 /\ p < count
            THEN (IF c < 3 THEN ToUint8Clamp(pixels[p + 1][c + 1]) ELSE 255)
            ELSE dest[k]])

\* the loop `dest[q++] = r; dest[q++] = g; dest[q++] = b; q += alpha01` over
\* count pixels, px[p] being the three numbers of pixel p
StorePixels(dest, destOffset, count, alpha01, px) ==
  LET pixels == TypedArray([p \in 1..count |-> px[p - 1]])
  IN TypedArray([k \in 1..Len(dest) |->
       LET k0 == k - 1 - destOffset
           p == k0 \div (3 + alpha01)
           c == k0 % (3 + alpha01)
       IN IF k0 >= 0 /\ p < count /\ c < 3 THEN ToUint8Clamp(pixels[p + 1][c + 1])
          ELSE dest[k]])

\* subarray taking end - begin elements from the start of the array
subarrayFromStart(src, begin, end) ==
  SubSeq(src, 1, IF end - begin > Len(src) THEN Len(src) ELSE end - begin)

\* src.subarray(begin, end): both ends clamped to the array
subarray(src, begin, end) ==
  LET b == IF begin < 0 THEN 0 ELSE IF begin > Len(src) THEN Len(src) ELSE begin
      e == IF end < 0 THEN 0 ELSE IF end > Len(src) THEN Len(src) ELSE end
  IN SubSeq(src, b + 1, e)

\* dest.set(source, offset) for a source that fits into dest
TypedArraySet(dest, source, offset) ==
  TypedArray([k \in 1..Len(dest) |->
     IF k - offset \in 1..Len(source) THEN ToUint8Clamp(source[k - offset]) ELSE dest[k]])

\* src[i] used as an array index: undefined and fractions index nothing
Index(v) == IF v = NaN \/ v % FP # 0 THEN NaN ELSE v \div FP

\* the short circuit taken whatever alpha01 is
AlternateIsPassthroughAnyAlpha(cs, alpha01) ==
  isPassthrough(cs.base, 8) \/ ~usesZeroToOneRange(cs.base)

\* the constant isPassthrough of AlternateCS.getRgbBuffer
AlternateIsPassthrough(cs, alpha01) ==
  (isPassthrough(cs.base, 8) \/ ~usesZeroToOneRange(cs.base)) /\ alpha01 = 0

RECURSIVE getRgbItem(_, _, _, _, _)
RECURSIVE getRgbBuffer(_, _, _, _, _, _, _, _)
RECURSIVE AlternateBuffer(_, _, _, _, _, _, _, _, _)

\* the loop of IndexedCS.getRgbBuffer: pixel p is converted by
\* base.getRgbBuffer(lookup, src[srcOffset + p] * numComps, 1, dest,
\* destOffset + p * outputDelta, 8, alpha01).  A call writes three bytes at
\* most, inside the outputDelta bytes of its pixel, so byte k of what the loop
\* leaves is the byte the call of its pixel leaves there.
IndexedLoop(cs, src, srcOffset, count, dest, destOffset, alpha01) ==
  LET numComps == cs.base.numComps
      outputDelta == LengthValue(getOutputLength(cs.base, Length(numComps), alpha01))
      lookup == AsNumbers(cs.lookup)
      pixel == TypedArray([p \in 1..count |->
                 getRgbBuffer(cs.base, lookup,
                              Times(Index(Rd(src, srcOffset + p - 1)), numComps), 1,
                              dest, destOffset + (p - 1) * outputDelta, 8, alpha01)])
  IN TypedArray([k \in 1..Len(dest) |->
        LET p == (k - 1 - destOffset) \div outputDelta
        IN IF k - 1 >= destOffset /\ p < count THEN pixel[p + 1][k] ELSE dest[k]])

\* the loop of AlternateCS.getRgbBuffer that fills baseBuf from pos on: pixel
\* p is scaled and tinted, and either the tinted values times 255 are stored
\* or base.getRgbItem(tinted, 0, baseBuf, pos) stores three bytes, pos moving
\* on by baseNumComps (the one base that does not use the range 0 to 1,
\* LabCS, has three components, so the bytes of the pixels do not overlap)
AlternateLoop(cs, src, srcOffset, den, count, baseBuf, pos) ==
  LET baseNumComps == cs.base.numComps
      tinted == TypedArray([p \in 1..count |->
                  TintFn(cs.tintFn,
                         TypedArray([j \in 1..cs.numComps |->
                            Scaled(Rd(src, srcOffset + (p - 1) * cs.numComps + j - 1), den)]),
                         0)])
      item == TypedArray([p \in 1..count |->
                getRgbItem(cs.base, tinted[p], 0, Zeros(3), 0)])
  IN TypedArray([k \in 1..Len(baseBuf) |->
        LET p == (k - 1 - pos) \div baseNumComps
            j == (k - 1 - pos) % baseNumComps
        IN IF k - 1 >= pos /\ p < count
             THEN IF usesZeroToOneRange(cs.base)
                    THEN ToUint8Clamp(Times(tinted[p + 1][j + 1], 255))
                  ELSE IF j < 3 THEN item[p + 1][j + 1]
                  ELSE baseBuf[k]
             ELSE baseBuf[k]])

\* AlternateCS.getRgbBuffer for a given isPassthrough: the loop fills dest
\* itself, or a new baseBuf that base.getRgbBuffer then converts at 8 bits
AlternateBuffer(cs, src, srcOffset, count, dest, destOffset, den, alpha01, passthrough) ==
  IF passthrough
    THEN AlternateLoop(cs, src, srcOffset, den, count, dest, destOffset)
    ELSE getRgbBuffer(cs.base,
                      AsNumbers(AlternateLoop(cs, src, srcOffset, den, count,
                                              Zeros(cs.base.numComps * count), 0)),
                      0, count, dest, destOffset, 8, alpha01)

\* cs.getRgbItem(src, srcOffset, dest, destOffset)
getRgbItem(cs, src, srcOffset, dest, destOffset) ==
  CASE cs.name = "DeviceGray" ->
         LET c == Times(Rd(src, srcOffset), 255)
         IN Wr3(dest, destOffset, <<c, c, c>>)
    [] cs.name = "DeviceRGB" ->
         Wr3(dest, destOffset, <<Times(Rd(src, srcOffset), 255),
                                 Times(Rd(src, srcOffset + 1), 255),
                                 Times(Rd(src, srcOffset + 2), 255)>>)
    [] cs.name = "DeviceCMYK" -> Wr3(dest, destOffset, CmykToRgb(src, srcOffset, 1))
    [] cs.name = "CalGray" -> Wr3(dest, destOffset, CalGrayToRgb(cs, src, srcOffset, 1))
    [] cs.name = "CalRGB" -> Wr3(dest, destOffset, CalRgbToRgb(cs, src, srcOffset, 1))
    [] cs.name = "Lab" -> Wr3(dest, destOffset, LabToRgb(cs, src, srcOffset, 0))
    [] cs.name = "Indexed" ->
         getRgbBuffer(cs.base, AsNumbers(cs.lookup),
                      Times(Index(Rd(src, srcOffset)), cs.base.numComps),
                      1, dest, destOffset, 8, 0)
    [] cs.name = "Alternate" ->
         getRgbItem(cs.base, TintFn(cs.tintFn, src, srcOffset), 0, dest, destOffset)

\* cs.getRgbBuffer(src, srcOffset, count, dest, destOffset, bits, alpha01)
getRgbBuffer(cs, src, srcOffset, count, dest, destOffset, bits, alpha01) ==
  CASE cs.name = "DeviceGray" ->
         StorePixels(dest, destOffset, count, alpha01,
                     [p \in 0..(count - 1) |->
                        LET c == Scale255(Rd(src, srcOffset + p), bits)
                        IN <<c, c, c>>])
    [] cs.name = "DeviceRGB" ->
         IF bits = 8 /\ alpha01 = 0
           THEN TypedArraySet(dest, subarray(src, srcOffset, srcOffset + count * 3),
                              destOffset)
           ELSE StorePixels(dest, destOffset, count, alpha01,
                            [p \in 0..(count - 1) |->
                               <<Scale255(Rd(src, srcOffset + 3 * p), bits),
                                 Scale255(Rd(src, srcOffset + 3 * p + 1), bits),
                                 Scale255(Rd(src, srcOffset + 3 * p + 2), bits)>>])
    [] cs.name = "DeviceCMYK" ->
         StorePixels(dest, destOffset, count, alpha01,
                     [p \in 0..(count - 1) |->
                        CmykToRgb(src, srcOffset + 4 * p, ScaleDen(bits))])
    [] cs.name = "CalGray" ->
         StorePixels(dest, destOffset, count, alpha01,
                     [p \in 0..(count - 1) |->
                        CalGrayToRgb(cs, src, srcOffset + p, ScaleDen(bits))])
    [] cs.name = "CalRGB" ->
         StorePixels(dest, destOffset, count, alpha01,
                     [p \in 0..(count - 1) |->
                        CalRgbToRgb(cs, src, srcOffset + 3 * p, ScaleDen(bits))])
    [] cs.name = "Lab" ->
         StorePixels(dest, destOffset, count, alpha01,
                     [p \in 0..(count - 1) |->
                        LabToRgb(cs, src, srcOffset + 3 * p, ScaleDen(bits))])
    [] cs.name = "Indexed" ->
         IndexedLoop(cs, src, srcOffset, count, dest, destOffset, alpha01)
    [] cs.name = "Alternate" ->
         AlternateBuffer(cs, src, srcOffset, count, dest, destOffset, ScaleDen(bits),
                         alpha01, AlternateIsPassthrough(cs, alpha01))

\* what AlternateCS.getRgbBuffer does, in order: for each of the count
\* samples the storing of its tinted values, with the buffer stored into and
\* the position pos, and after the loop the call of base.getRgbBuffer on
\* baseBuf if there is one
AlternateEvents(cs, count, destOffset, alpha01) ==
  LET passthrough == AlternateIsPassthrough(cs, alpha01)
      baseNumComps == cs.base.numComps
  IN [i \in 1..count |->
        [ev |-> "tinted",
         into |-> IF passthrough THEN "dest" ELSE "baseBuf",
         pos |-> (IF passthrough THEN destOffset ELSE 0) + (i - 1) * baseNumComps]]
     \o (IF passthrough THEN <<>>
         ELSE <<[ev |-> "base.getRgbBuffer", src |-> "baseBuf",
                 length |-> baseNumComps * count, count |-> count,
                 destOffset |-> destOffset, bits |-> 8, alpha01 |-> alpha01]>>)

\* cs.getRgb(src, srcOffset)
getRgb(cs, src, srcOffset) == getRgbItem(cs, src, srcOffset, Zeros(3), 0)

\* the conversion of a whole number stored into a Uint16Array: modulo 2^16
ToUint16(x) == x % (2 ^ 16)

\* xScaled[i] rounding i * xRatio up
xScaledAtRoundUp(i, w1, w2) == ToUint16(((i * w1 + w2 - 1) \div w2) * 3)

\* resizeRgbImage: xScaled[i], an element of a Uint16Array; Math.floor(i *
\* xRatio) is taken of the exact product
xScaledAt(i, w1, w2) == ToUint16(((i * w1) \div w2) * 3)

\* resizeRgbImage(src, dest, w1, h1, w2, h2, alpha01); Math.floor(i * yRatio)
\* is taken of the exact product
resizeRgbImage(src, dest, w1, h1, w2, h2, alpha01) ==
  LET a == IF alpha01 # 1 THEN 0 ELSE alpha01
  IN TypedArray([k \in 1..Len(dest) |->
        LET p == (k - 1) \div (3 + a)
            c == (k - 1) % (3 + a)
            py == (((p \div w2) * h1) \div h2) * (w1 * 3)
        IN IF p < w2 * h2 /\ c < 3
             THEN ToUint8Clamp(Rd(src, py + xScaledAt(p % w2, w1, w2) + c))
             ELSE dest[k]])

\* the colour-map branch taken for the device spaces too
UsesColorMapAnyName(cs, count, bpc) ==
  /\ ~isPassthrough(cs, bpc)
  /\ cs.numComps = 1
  /\ count > Shl1(bpc)

\* the colour-map branch of fillRgb is taken
UsesColorMap(cs, count, bpc) ==
  /\ ~isPassthrough(cs, bpc)
  /\ cs.numComps = 1
  /\ count > Shl1(bpc)
  /\ cs.name # "DeviceGray"
  /\ cs.name # "DeviceRGB"

\* the two loops of fillRgb over the colour map: into dest when no resizing
\* is needed, else into a new Uint8Array rgbBuf that is then resized
FillFromColorMap(colorMap, dest, originalWidth, originalHeight, width, height, comps, alpha01) ==
  LET count == originalWidth * originalHeight
      mapped == [i \in 0..(count - 1) |->
                   <<Rd(colorMap, Times(Index(Rd(comps, i)), 3)),
                     Rd(colorMap, Times(Index(Rd(comps, i)), 3) + 1),
                     Rd(colorMap, Times(Index(Rd(comps, i)), 3) + 2)>>]
  IN IF originalHeight # height \/ originalWidth # width
       THEN resizeRgbImage(AsNumbers(StorePixels(Zeros(count * 3), 0, count, 0, mapped)),
                           dest, originalWidth, originalHeight, width, height, alpha01)
       ELSE StorePixels(dest, 0, count, alpha01, mapped)

\* the end of fillRgb for a given rgbBuf: resized into dest, or its first
\* width * actualHeight pixels copied into dest
FillFromRgbBuf(rgbBuf, dest, originalWidth, originalHeight, width, height, actualHeight, alpha01) ==
  IF originalHeight # height \/ originalWidth # width
    THEN resizeRgbImage(rgbBuf, dest, originalWidth, originalHeight, width, height,
                        alpha01)
    ELSE StorePixels(dest, 0, width * actualHeight, alpha01,
                     [p \in 0..(width * actualHeight - 1) |->
                        <<Rd(rgbBuf, 3 * p), Rd(rgbBuf, 3 * p + 1), Rd(rgbBuf, 3 * p + 2)>>])

\* cs.fillRgb(dest, originalWidth, originalHeight, width, height,
\*            actualHeight, bpc, comps, alpha01)
fillRgb(cs, dest, originalWidth, originalHeight, width, height, actualHeight, bpc, comps, alpha01) ==
  IF isPassthrough(cs, bpc)
    THEN FillFromRgbBuf(comps, dest, originalWidth, originalHeight, width, height,
                        actualHeight, alpha01)
  ELSE IF UsesColorMap(cs, originalWidth * originalHeight, bpc)
    THEN FillFromColorMap(
           AsNumbers(getRgbBuffer(cs,
                                  TypedArray([i \in 1..Shl1(bpc) |-> (i - 1) * FP]),
                                  0, Shl1(bpc), Zeros(Shl1(bpc) * 3), 0, bpc, 0)),
           dest, originalWidth, originalHeight, width, height, comps, alpha01)
  ELSE IF originalHeight # height \/ originalWidth # width
    THEN FillFromRgbBuf(
           AsNumbers(getRgbBuffer(cs, comps, 0, originalWidth * originalHeight,
                                  Zeros(originalWidth * originalHeight * 3), 0, bpc, 0)),
           dest, originalWidth, originalHeight, width, height, actualHeight, alpha01)
  ELSE getRgbBuffer(cs, comps, 0, width * actualHeight, dest, 0, bpc, alpha01)

\* the calls of this.getRgbBuffer one fillRgb makes, in order: the array
\* converted (the table allColors of the 1 << bpc sample values, or comps),
\* count, bits and alpha01
getRgbBufferCalls(cs, originalWidth, originalHeight, width, height, actualHeight, bpc, alpha01) ==
  IF isPassthrough(cs, bpc) THEN <<>>
  ELSE IF UsesColorMap(cs, originalWidth * originalHeight, bpc)
    THEN <<[src |-> "allColors", count |-> Shl1(bpc), bits |-> bpc, alpha01 |-> 0]>>
  ELSE IF originalHeight # height \/ originalWidth # width
    THEN <<[src |-> "comps", count |-> originalWidth * originalHeight, bits |-> bpc,
            alpha01 |-> 0]>>
  ELSE <<[src |-> "comps", count |-> width * actualHeight, bits |-> bpc,
          alpha01 |-> alpha01]>>

(***************************************************************************)
(* The conversion calls.  Each behaviour of SpecConv makes one call of     *)
(* getRgb / getRgbItem / getRgbBuffer, of getOutputLength or of fillRgb on *)
(* one of the colour spaces below, and conv records its arguments and what *)
(* it left.                                                                *)
(***************************************************************************)
\* the colour spaces converted with, as their constructors build them
ConvSpaces ==
  <<DeviceGrayCS,
    DeviceRgbCS,
    DeviceCmykCS,
    CalGrayCS(WhiteD65, Undef, Real(2 * FP)).v,
    CalRGBCS(WhiteD65, Undef, Undef, Undef).v,
    LabCS(WhiteD50, Undef, Undef).v,
    IndexedCS(DeviceRgbCS, 2, Str(<<0, 255, 0, 511, 0, 0>>)).v,
    IndexedCS(DeviceCmykCS, 2, Str(<<0, 0, 0, 255, 128, 0, 64, 0>>)).v,
    IndexedCS(AlternateCS(1, DeviceRgbCS, 1), 3, Stream([Length |-> Num(3)], <<0, 128, 255>>)).v,
    AlternateCS(1, DeviceRgbCS, 1),
    AlternateCS(2, DeviceCmykCS, 2),
    AlternateCS(1, LabCS(WhiteD50, Undef, Undef).v, 3),
    AlternateCS(1, DeviceGrayCS, 4)>>

ConvIds == 1..Len(ConvSpaces)

\* the bits per component of a sample
BitsSet == {1, 2, 4, 8, 16}

\* the values one component of a valid sample takes: an index into the
\* palette for an Indexed space, else 0, 1/2 and 1
ComponentValues(cs) ==
  IF cs.name = "Indexed" THEN {i * FP : i \in 0..(cs.highVal - 1)}
  ELSE {0, FP \div 2, FP}

\* the samples of a colour space: one value per component
Samples(cs) == [1..cs.numComps -> ComponentValues(cs)]

\* what dest holds before a call: n bytes 7, so that a byte a call did not
\* write differs from a byte written 0
Filled(n) == TypedArray([i \in 1..n |-> 7])

\* getRgb, getRgbItem and getRgbBuffer (count 1, alpha01 0) on one sample
GetRgbCall(c, src, bits) ==
  /\ conv = NoConv
  /\ conv' = [op |-> "getRgb", cs |-> c, src |-> src, bits |-> bits,
              rgb |-> getRgb(ConvSpaces[c], src, 0),
              item |-> getRgbItem(ConvSpaces[c], src, 0, Filled(3), 0),
              buf |-> getRgbBuffer(ConvSpaces[c], src, 0, 1, Filled(3), 0, bits, 0)]
  /\ UNCHANGED <<cache, nextId, sing, made, loaded, returned, last, build, calls>>

\* the pixel counts getOutputLength is asked about: small ones, and the
\* smallest ones whose output of 3 or 4 bytes a pixel does not fit 31 bits
PixelCounts ==
  {Length(0), Length(1), Length(5),
   [n |-> Wide(8192, 0), d |-> 1],
   [n |-> Wide(10922, 43691), d |-> 1]}

\* getOutputLength(count * numComps, alpha01)
GetOutputLengthCall(c, count, alpha01) ==
  /\ conv = NoConv
  /\ conv' = [op |-> "getOutputLength", cs |-> c, count |-> count, alpha01 |-> alpha01,
              out |-> getOutputLength(ConvSpaces[c],
                                      LMul(count, ConvSpaces[c].numComps), alpha01)]
  /\ UNCHANGED <<cache, nextId, sing, made, loaded, returned, last, build, calls>>

\* the largest image fillRgb is called on
MaxWidth == 2

MaxHeight == 3

\* the image sizes: original, and drawn (the same, or resized)
Sizes ==
  {z \in [ow : 1..MaxWidth, oh : 1..MaxHeight, w : 1..MaxWidth, h : 1..MaxHeight] :
     (z.w = z.ow /\ z.h = z.oh) \/ (z.w = 1 /\ z.h = MaxHeight)}

\* the samples of an image of n components: component i is 37 i modulo
\* 2^bpc
Comps(n, bpc) == TypedArray([i \in 1..n |-> ((37 * i) % Shl1(bpc)) * FP])

\* fillRgb on an image of which actualHeight rows were decoded
FillRgbCall(c, z, actualHeight, bpc, alpha01) ==
  LET cs == ConvSpaces[c]
      comps == Comps(z.ow * actualHeight * cs.numComps, bpc)
      dest == Filled(z.w * z.h * (3 + alpha01))
  IN /\ conv = NoConv
     /\ actualHeight <= z.oh
     /\ conv' = [op |-> "fillRgb", cs |-> c, z |-> z, actualHeight |-> actualHeight,
                 bpc |-> bpc, comps |-> comps, alpha01 |-> alpha01,
                 getRgbBufferCalls |-> getRgbBufferCalls(cs, z.ow, z.oh, z.w, z.h,
                                                         actualHeight, bpc, alpha01),
                 dest |-> fillRgb(cs, dest, z.ow, z.oh, z.w, z.h, actualHeight, bpc,
                                  comps, alpha01)]
     /\ UNCHANGED <<cache, nextId, sing, made, loaded, returned, last, build, calls>>

\* the largest number of pixels one getRgbBuffer call converts
MaxCount == 2

\* the values a component of a buffer takes, in order: the indices of the
\* palette for an Indexed space, else the smallest and the largest sample
\* of the bit depth
BufferValues(cs, bits) ==
  IF cs.name = "Indexed" THEN [i \in 1..cs.highVal |-> (i - 1) * FP]
  ELSE <<0, ScaleDen(bits) * FP>>

\* the buffer of count pixels that starts with the pixel s: component j of
\* pixel p is the value p places after the one of s (s[j] counts the values)
Buffer(cs, bits, s, count) ==
  LET vals == BufferValues(cs, bits)
  IN TypedArray([i \in 1..(count * cs.numComps) |->
        vals[((s[((i - 1) % cs.numComps) + 1] - 1 + (i - 1) \div cs.numComps) % Len(vals)) + 1]])

\* getRgbBuffer(src, 0, count, dest, destOffset, bits, alpha01) on a dest
\* with two more bytes than the call needs
GetRgbBufferCall(c, s, count, destOffset, bits, alpha01) ==
  LET cs == ConvSpaces[c]
  IN /\ conv = NoConv
     /\ conv' = [op |-> "getRgbBuffer", cs |-> c, src |-> Buffer(cs, bits, s, count),
                 count |-> count, destOffset |-> destOffset, bits |-> bits,
                 alpha01 |-> alpha01,
                 events |-> IF cs.name = "Alternate"
                              THEN AlternateEvents(cs, count, destOffset, alpha01)
                              ELSE <<>>,
                 dest |-> getRgbBuffer(cs, Buffer(cs, bits, s, count), 0, count,
                                       Filled(destOffset + count * (3 + alpha01) + 2),
                                       destOffset, bits, alpha01)]
     /\ UNCHANGED <<cache, nextId, sing, made, loaded, returned, last, build, calls>>

(***************************************************************************)
(* The constructors of the calibrated spaces, called on their own.         *)
(***************************************************************************)
\* the whitePoint arguments (none, or an array of three numbers): none, D65, D50, one with XW = ZW = 0, and ones
\* with a negative XW, a negative ZW, a YW below 1 and a YW above 1
WhitePoints ==
  {Undef, WhiteD65, WhiteD50, Nums(<<0, FP, 0>>), Nums(<<-1, FP, 1089>>),
   Nums(<<950, FP, -1>>), Nums(<<950, FP - 1, 1089>>), Nums(<<950, FP + 1, 1089>>)}

\* the blackPoint arguments: none, two valid ones, and one negative
\* component in each place
BlackPoints ==
  {Undef, Nums(<<0, 0, 0>>), Nums(<<100, 50, 0>>), Nums(<<-1, 0, 0>>),
   Nums(<<0, -1, 0>>), Nums(<<100, 50, -1>>)}

\* the gamma arguments of CalGray: none, and numbers below, at and above 1
GrayGammas == {Undef, Real(-FP), Real(0), Real(FP \div 2), Real(FP), Real(2 * FP)}

\* the gamma arguments of CalRGB
RgbGammas ==
  {Undef, Nums(<<FP, FP, FP>>), Nums(<<2 * FP, FP \div 2, 0>>), Nums(<<-1, FP, FP>>),
   Nums(<<FP, -1, 2 * FP>>), Nums(<<FP, FP, -FP>>)}

\* the matrix arguments of CalRGB
Matrices == {Undef, Nums(<<412, 213, 19, 358, 715, 119, 180, 72, 951>>)}

\* the range arguments of Lab: none, valid ones, and ones with amin > amax
\* or bmin > bmax
Ranges ==
  {Undef, Nums(<<-100 * FP, 100 * FP, -100 * FP, 100 * FP>>), Nums(<<0, FP, 0, FP>>),
   Nums(<<5, 5, 5, 5>>), Nums(<<FP, 0, 0, FP>>), Nums(<<0, FP, FP, 0>>)}

\* new CalGrayCS(...), new CalRGBCS(...) or new LabCS(...): extra is the gamma
\* or the range, result what the constructor gave
ConstructCall(kind, whitePoint, blackPoint, extra, matrix) ==
  /\ conv = NoConv
  /\ conv' = [op |-> "new", kind |-> kind, whitePoint |-> whitePoint,
              blackPoint |-> blackPoint, extra |-> extra, matrix |-> matrix,
              result |-> CASE kind = "CalGray" -> CalGrayCS(whitePoint, blackPoint, extra)
                           [] kind = "CalRGB" -> CalRGBCS(whitePoint, blackPoint, extra, matrix)
                           [] kind = "Lab" -> LabCS(whitePoint, blackPoint, extra)]
  /\ UNCHANGED <<cache, nextId, sing, made, loaded, returned, last, build, calls>>

(***************************************************************************)
(* The decode maps.  A decode map is Undef (no array) or Nums(s), s its    *)
(* numbers; bpc is a number, NaN standing for a bpc that is no number.     *)
(***************************************************************************)
\* isDefaultDecode comparing the first pair of the map only
isDefaultDecodeFirstPair(decodeArray, numComps) ==
  IF decodeArray.t # "Nums" THEN TRUE
  ELSE IF (IF numComps < 0 THEN 0 ELSE numComps) * 2 # Len(decodeArray.v) THEN TRUE
  ELSE Len(decodeArray.v) = 0 \/ (decodeArray.v[1] = 0 /\ decodeArray.v[2] = FP)

\* isDefaultDecode(decode, numComps) of cs.js, decode the array; a null numComps (-1 here)
\* counts as 0
isDefaultDecode(decodeArray, numComps) ==
  IF decodeArray.t # "Nums" THEN TRUE
  ELSE IF (IF numComps < 0 THEN 0 ELSE numComps) * 2 # Len(decodeArray.v) THEN TRUE
  ELSE \A i \in 1..Len(decodeArray.v) : decodeArray.v[i] = (IF i % 2 = 1 THEN 0 ELSE FP)

\* Number.isInteger(x)
IsInteger(x) == x # NaN /\ x % FP = 0

\* 1 << n for a whole n: the shift count is taken modulo 32 and the result
\* is a signed 32-bit integer
Shl32(n) == IF n % 32 = 31 THEN 0 - 2 * (2 ^ 30) ELSE 2 ^ (n % 32)

\* IndexedCS.isDefaultDecode with the comparison negated
IndexedIsDefaultDecodeNegated(decodeMap, bpc) ==
  IF decodeMap.t # "Nums" THEN TRUE
  ELSE IF Len(decodeMap.v) # 2 THEN TRUE
  ELSE IF ~IsInteger(bpc) \/ bpc < FP THEN TRUE
  ELSE ~(/\ decodeMap.v[1] = 0
         /\ IsInteger(decodeMap.v[2])
         /\ decodeMap.v[2] \div FP + 1 = Shl32(bpc \div FP))

\* IndexedCS.isDefaultDecode(decodeMap, bpc)
IndexedIsDefaultDecode(decodeMap, bpc) ==
  IF decodeMap.t # "Nums" THEN TRUE
  ELSE IF Len(decodeMap.v) # 2 THEN TRUE
  ELSE IF ~IsInteger(bpc) \/ bpc < FP THEN TRUE
  ELSE /\ decodeMap.v[1] = 0
       /\ IsInteger(decodeMap.v[2])
       /\ decodeMap.v[2] \div FP + 1 = Shl32(bpc \div FP)

\* the longest decode map
MaxDecodeLen == 4

\* the decode maps: no array, and the arrays of 0, 1/10 and 1
DecodeMaps ==
  {Undef} \cup {Nums(s) : s \in UNION {[1..n -> {0, FP \div 10, FP}] : n \in 0..MaxDecodeLen}}

\* the decode maps of indexed images: no array, and arrays of up to three
\* of the numbers 0, 1/2, 1, 3, 255
IndexedDecodeMaps ==
  {Undef} \cup {Nums(s) : s \in UNION {[1..n -> {0, FP \div 2, FP, 3 * FP, 255 * FP}] : n \in 0..3}}

\* the bpc arguments: no number, -1, 0, 1/2, 1, 3/2, 2, 8, 32, 33
BpcValues ==
  {NaN, 0 - FP, 0, FP \div 2, FP, (3 * FP) \div 2, 2 * FP, 8 * FP, 32 * FP, 33 * FP}

\* a call of the common isDefaultDecode
IsDefaultDecodeCall(decodeArray, numComps) ==
  /\ conv = NoConv
  /\ conv' = [op |-> "isDefaultDecode", decode |-> decodeArray, numComps |-> numComps,
              out |-> isDefaultDecode(decodeArray, numComps)]
  /\ UNCHANGED <<cache, nextId, sing, made, loaded, returned, last, build, calls>>

\* a call of isDefaultDecode on an Indexed space
IndexedIsDefaultDecodeCall(decodeMap, bpc) ==
  /\ conv = NoConv
  /\ conv' = [op |-> "IndexedCS.isDefaultDecode", decodeMap |-> decodeMap, bpc |-> bpc,
              out |-> IndexedIsDefaultDecode(decodeMap, bpc)]
  /\ UNCHANGED <<cache, nextId, sing, made, loaded, returned, last, build, calls>>

\* the smallest width whose last pixel starts past the 2^16 elements a
\* Uint16Array element can index
WideWidth == (2 ^ 16) \div 3 + 2

\* the bytes of an image of n elements: element i is i modulo 251
ImageBytes(n) == TypedArray([i \in 1..n |-> ((i - 1) % 251) * FP])

\* the three bytes of pixel p of an image of stride bytes a pixel
PixelAt(image, p, stride) ==
  <<image[p * stride + 1], image[p * stride + 2], image[p * stride + 3]>>

\* resizeRgbImage(src, dest, w, h, w, h, alpha01), a resize to the same size,
\* looked at in column x of row y
ResizeCall(w, h, alpha01, x, y) ==
  /\ conv = NoConv
  /\ conv' = [op |-> "resize", w |-> w, h |-> h, alpha01 |-> alpha01, x |-> x, y |-> y,
              xScaled |-> xScaledAt(x, w, w),
              srcPixel |-> PixelAt(ImageBytes(w * h * 3), y * w + x, 3),
              destPixel |-> PixelAt(resizeRgbImage(ImageBytes(w * h * 3),
                                                   Filled(w * h * (3 + alpha01)),
                                                   w, h, w, h, alpha01),
                                    y * w + x, 3 + alpha01)]
  /\ UNCHANGED <<cache, nextId, sing, made, loaded, returned, last, build, calls>>

(***************************************************************************)
(* CalRGBCS on its scratch vectors.  convertToRgb keeps its intermediate   *)
(* vectors in three Float32Arrays of the module, tempNormalizeMatrix,      *)
(* tempConvertMatrix1 and tempConvertMatrix2, that every call and every    *)
(* stage reuse.  Here a stage is run on a memory mem of the three vectors: *)
(* it is given the names of the vectors it reads and writes, and stores    *)
(* element after element, each store reading the memory the stores before  *)
(* it left.                                                                *)
(***************************************************************************)
\* result[i] = value(m, i), m being the memory the store is made on
Store(m, result, i, value(_, _)) == [m EXCEPT ![result][i] = value(m, i)]

\* result[0], result[1] and result[2] stored one after the other, each store
\* made on the memory the stores before it left
Stores(mem, result, value(_, _)) ==
  Store(Store(Store(mem, result, 1, value), result, 2, value), result, 3, value)

\* matrixProduct(a, b, result), b and result being scratch vectors
matrixProductIn(mem, a, b, result) ==
  LET value(m, i) == Mul(a[3 * i - 2], m[b][1]) + Mul(a[3 * i - 1], m[b][2])
                       + Mul(a[3 * i], m[b][3])
  IN Stores(mem, result, value)

convertToFlatIn(mem, sourceWhitePoint, LMS, result) ==
  LET value(m, i) == Quot(m[LMS][i], sourceWhitePoint[i])
  IN Stores(mem, result, value)

convertToD65In(mem, sourceWhitePoint, LMS, result) ==
  LET value(m, i) == Quot(Mul(m[LMS][i], <<950, FP, 1089>>[i]), sourceWhitePoint[i])
  IN Stores(mem, result, value)

\* result[i] = XYZ_In[i], i = 0, 1, 2
CopyIn(mem, XYZ_In, result) ==
  LET value(m, i) == m[XYZ_In][i]
  IN Stores(mem, result, value)

compensateBlackPointIn(mem, sourceBlackPoint, XYZ_Flat, result) ==
  IF sourceBlackPoint = <<0, 0, 0>> THEN CopyIn(mem, XYZ_Flat, result)
  ELSE LET Scale(i) == Quot(FP - decodeL(0), FP - decodeL(sourceBlackPoint[i]))
           value(m, i) == Mul(m[XYZ_Flat][i], Scale(i)) + (FP - Scale(i))
       IN Stores(mem, result, value)

normalizeWhitePointToFlatIn(mem, sourceWhitePoint, XYZ_In, result) ==
  IF sourceWhitePoint[1] = FP /\ sourceWhitePoint[3] = FP THEN CopyIn(mem, XYZ_In, result)
  ELSE matrixProductIn(
         convertToFlatIn(matrixProductIn(mem, BRADFORD_SCALE_MATRIX, XYZ_In, result),
                         sourceWhitePoint, result, "tempNormalizeMatrix"),
         BRADFORD_SCALE_INVERSE_MATRIX, "tempNormalizeMatrix", result)

\* normalizeWhitePointToD65 keeping LMS_D65 in result
normalizeWhitePointToD65InPlace(mem, sourceWhitePoint, XYZ_In, result) ==
  matrixProductIn(
    convertToD65In(matrixProductIn(mem, BRADFORD_SCALE_MATRIX, XYZ_In, result),
                   sourceWhitePoint, result, result),
    BRADFORD_SCALE_INVERSE_MATRIX, result, result)

normalizeWhitePointToD65In(mem, sourceWhitePoint, XYZ_In, result) ==
  matrixProductIn(
    convertToD65In(matrixProductIn(mem, BRADFORD_SCALE_MATRIX, XYZ_In, result),
                   sourceWhitePoint, result, "tempNormalizeMatrix"),
    BRADFORD_SCALE_INVERSE_MATRIX, "tempNormalizeMatrix", result)

\* the vector a stage left in result, noted under the name of the stage
Stage(run, name, mem, result) == [run EXCEPT !.mem = mem, ![name] = mem[result]]

\* the three numbers convertToRgb stores into dest
StoreRgb(run) ==
  [run EXCEPT !.rgb = <<Times(sRGBTransferFunction(run.SRGB[1]), 255),
                        Times(sRGBTransferFunction(run.SRGB[2]), 255),
                        Times(sRGBTransferFunction(run.SRGB[3]), 255)>>]

\* the stages of convertToRgb after XYZ was stored into tempConvertMatrix1
Stages(cs, run, n) ==
  CASE n = 1 -> Stage(run, "XYZ_Flat",
                      normalizeWhitePointToFlatIn(run.mem, cs.whitePoint,
                                                  "tempConvertMatrix1", "tempConvertMatrix2"),
                      "tempConvertMatrix2")
    [] n = 2 -> Stage(run, "XYZ_Black",
                      compensateBlackPointIn(run.mem, cs.blackPoint,
                                             "tempConvertMatrix2", "tempConvertMatrix1"),
                      "tempConvertMatrix1")
    [] n = 3 -> Stage(run, "XYZ_D65",
                      normalizeWhitePointToD65In(run.mem, FLAT_WHITEPOINT_MATRIX,
                                                 "tempConvertMatrix1", "tempConvertMatrix2"),
                      "tempConvertMatrix2")
    [] n = 4 -> Stage(run, "SRGB",
                      matrixProductIn(run.mem, SRGB_D65_XYZ_TO_RGB_MATRIX,
                                      "tempConvertMatrix2", "tempConvertMatrix1"),
                      "tempConvertMatrix1")

\* XYZ[0] = X; XYZ[1] = Y; XYZ[2] = Z, XYZ being tempConvertMatrix1
StoreXYZ(mem, XYZ) ==
  [mem |-> [mem EXCEPT !["tempConvertMatrix1"] = XYZ],
   XYZ |-> XYZ, XYZ_Flat |-> <<>>, XYZ_Black |-> <<>>, XYZ_D65 |-> <<>>, SRGB |-> <<>>,
   rgb |-> <<>>]

\* convertToRgb(cs, src, 0, dest, 0, 1) of CalRGBCS on the scratch vectors as
\* mem holds them: the vector each stage leaves, the three numbers stored
\* into dest, and the scratch vectors the call leaves
convertToRgbIn(cs, src, mem) ==
  LET A == adjustToRange(Rd(src, 0))
      B == adjustToRange(Rd(src, 1))
      C == adjustToRange(Rd(src, 2))
      AGR == IF A = FP THEN FP ELSE Pow(A, cs.GR)
      BGG == IF B = FP THEN FP ELSE Pow(B, cs.GG)
      CGB == IF C = FP THEN FP ELSE Pow(C, cs.GB)
  IN StoreRgb(
       Stages(cs,
         Stages(cs,
           Stages(cs,
             Stages(cs,
               StoreXYZ(mem, <<Mul(cs.MXA, AGR) + Mul(cs.MXB, BGG) + Mul(cs.MXC, CGB),
                               Mul(cs.MYA, AGR) + Mul(cs.MYB, BGG) + Mul(cs.MYC, CGB),
                               Mul(cs.MZA, AGR) + Mul(cs.MZB, BGG) + Mul(cs.MZC, CGB)>>),
               1), 2), 3), 4))

\* the CalRGB spaces converted with: the white point D65, flat or D50, the
\* black point zero or not
CalRgbSpaces ==
  <<CalRGBCS(WhiteD65, Undef, Undef, Undef).v,
    CalRGBCS(WhiteD65, Nums(<<50 * FP, 20 * FP, 10 * FP>>), Nums(<<2 * FP, FP, 3 * FP>>),
             Nums(<<412, 213, 19, 358, 715, 119, 180, 72, 951>>)).v,
    CalRGBCS(Nums(<<FP, FP, FP>>), Nums(<<0, 10 * FP, 40 * FP>>), Undef, Undef).v,
    CalRGBCS(WhiteD50, Undef, Nums(<<FP, 2 * FP, FP>>),
             Nums(<<412, 213, 19, 358, 715, 119, 180, 72, 951>>)).v>>

\* the scratch vectors when the module is loaded
NewScratch ==
  [tempNormalizeMatrix |-> <<0, 0, 0>>, tempConvertMatrix1 |-> <<0, 0, 0>>,
   tempConvertMatrix2 |-> <<0, 0, 0>>]

\* two calls of convertToRgb one after the other, by two CalRGB spaces: the
\* second runs on the scratch vectors the first left
ConvertToRgbCall(c1, src1, c2, src2) ==
  LET first == convertToRgbIn(CalRgbSpaces[c1], src1, NewScratch)
  IN /\ conv = NoConv
     /\ conv' = [op |-> "convertToRgb", cs |-> c2, src |-> src2,
                 scratch |-> first.mem,
                 call |-> convertToRgbIn(CalRgbSpaces[c2], src2, first.mem),
                 alone |-> convertToRgbIn(CalRgbSpaces[c2], src2, NewScratch)]
     /\ UNCHANGED <<cache, nextId, sing, made, loaded, returned, last, build, calls>>

\* getRgbItem and getRgbBuffer of two CalGray spaces that differ in the
\* blackPoint they were constructed with, on the same sample
CalGrayPairCall(whitePoint, gamma, blackPoint1, blackPoint2, src, bits, alpha01) ==
  LET cs1 == CalGrayCS(whitePoint, blackPoint1, gamma).v
      cs2 == CalGrayCS(whitePoint, blackPoint2, gamma).v
      sample == <<((src * ScaleDen(bits)) \div FP) * FP>>
  IN /\ conv = NoConv
     /\ blackPoint1 # blackPoint2
     /\ conv' = [op |-> "calGrayPair", whitePoint |-> whitePoint, gamma |-> gamma,
                 cs1 |-> cs1, cs2 |-> cs2, src |-> src, bits |-> bits, alpha01 |-> alpha01,
                 item1 |-> getRgbItem(cs1, <<src>>, 0, Filled(3), 0),
                 item2 |-> getRgbItem(cs2, <<src>>, 0, Filled(3), 0),
                 buf1 |-> getRgbBuffer(cs1, sample, 0, 1, Filled(3 + alpha01), 0, bits,
                                       alpha01),
                 buf2 |-> getRgbBuffer(cs2, sample, 0, 1, Filled(3 + alpha01), 0, bits,
                                       alpha01)]
     /\ UNCHANGED <<cache, nextId, sing, made, loaded, returned, last, build, calls>>

(***************************************************************************)
(* The indices of resizeRgbImage: what it reads of src and writes of dest. *)
(***************************************************************************)
\* the lesser (sign = -1) or the greater (sign = 1) of two numbers
Extreme(l, r, sign) == IF sign * l >= sign * r THEN l ELSE r

\* the least (sign = -1) or the greatest (sign = 1) of xScaled[from..to]
RECURSIVE xScaledExtreme(_, _, _, _, _)
xScaledExtreme(from, to, w1, w2, sign) ==
  IF from = to THEN xScaledAt(from, w1, w2)
  ELSE Extreme(xScaledExtreme(from, (from + to) \div 2, w1, w2, sign),
               xScaledExtreme((from + to) \div 2 + 1, to, w1, w2, sign), sign)

\* the least and the greatest index of src read: oldIndex, oldIndex + 1 and
\* oldIndex + 2 for oldIndex = py + xScaled[j], over the rows i and columns j
ReadRange(w1, h1, w2, h2) ==
  LET pys == {((i * h1) \div h2) * (w1 * 3) : i \in 0..(h2 - 1)}
      lo == CHOOSE x \in pys : \A y \in pys : x <= y
      hi == CHOOSE x \in pys : \A y \in pys : x >= y
  IN <<lo + xScaledExtreme(0, w2 - 1, w1, w2, -1),
       hi + xScaledExtreme(0, w2 - 1, w1, w2, 1) + 2>>

\* the indices of dest written by the pixels from p on, newIndex being the
\* index the next store goes to: three stores, then newIndex += alpha01
RECURSIVE WrittenFrom(_, _, _, _)
WrittenFrom(p, pixels, newIndex, alpha01) ==
  IF p >= pixels THEN {}
  ELSE {newIndex, newIndex + 1, newIndex + 2}
         \cup WrittenFrom(p + 1, pixels, newIndex + 3 + alpha01, alpha01)

\* resizeRgbImage(src, dest, w1, h1, w2, h2, alpha01) for an alpha01 that may
\* be neither 0 nor 1, on a dest two bytes longer than the image written
ResizeIndicesCall(w1, h1, w2, h2, alpha01) ==
  LET a == IF alpha01 # 1 THEN 0 ELSE alpha01
  IN /\ conv = NoConv
     /\ conv' = [op |-> "resizeIndices", w1 |-> w1, h1 |-> h1, w2 |-> w2, h2 |-> h2,
                 alpha01 |-> alpha01,
                 reads |-> ReadRange(w1, h1, w2, h2),
                 written |-> WrittenFrom(0, w2 * h2, 0, a),
                 dest |-> resizeRgbImage(ImageBytes(w1 * h1 * 3),
                                         Filled(w2 * h2 * (3 + a) + 2),
                                         w1, h1, w2, h2, alpha01)]
     /\ UNCHANGED <<cache, nextId, sing, made, loaded, returned, last, build, calls>>

\* the indices read by a resize between two wide images
WideReadsCall(w1, w2) ==
  /\ conv = NoConv
  /\ conv' = [op |-> "resizeReads", w1 |-> w1, h1 |-> 1, w2 |-> w2, h2 |-> 1,
              reads |-> ReadRange(w1, 1, w2, 1)]
  /\ UNCHANGED <<cache, nextId, sing, made, loaded, returned, last, build, calls>>

NextConv ==
  \/ /\ conv = NoConv
     /\ \E c \in ConvIds : \E src \in Samples(ConvSpaces[c]) : \E bits \in BitsSet :
          GetRgbCall(c, src, bits)
  \/ /\ conv = NoConv
     /\ \E c \in ConvIds : \E count \in PixelCounts : \E alpha01 \in {0, 1} :
          GetOutputLengthCall(c, count, alpha01)
  \/ /\ conv = NoConv
     /\ \E c \in ConvIds : \E z \in Sizes : \E actualHeight \in 1..MaxHeight :
          \E bpc \in {1, 2, 8} : \E alpha01 \in {0, 1} :
            FillRgbCall(c, z, actualHeight, bpc, alpha01)
  \/ /\ conv = NoConv
     /\ \E w \in 1..MaxWidth : \E h \in 1..MaxHeight : \E alpha01 \in {0, 1} :
          \E x \in 0..(w - 1) : \E y \in 0..(h - 1) : ResizeCall(w, h, alpha01, x, y)
  \/ /\ conv = NoConv
     /\ \E x \in {0, WideWidth - 2, WideWidth - 1} : ResizeCall(WideWidth, 1, 0, x, 0)
  \/ /\ conv = NoConv
     /\ \E c \in ConvIds : \E bits \in {1, 8} :
          \E s \in [1..ConvSpaces[c].numComps -> 1..Len(BufferValues(ConvSpaces[c], bits))] :
            \E count \in 0..MaxCount : \E destOffset \in {0, 1} : \E alpha01 \in {0, 1} :
              GetRgbBufferCall(c, s, count, destOffset, bits, alpha01)
  \/ /\ conv = NoConv
     /\ \E whitePoint \in WhitePoints : \E blackPoint \in BlackPoints :
          \/ \E gamma \in GrayGammas : ConstructCall("CalGray", whitePoint, blackPoint, gamma, Undef)
          \/ \E gamma \in RgbGammas : \E matrix \in Matrices :
               ConstructCall("CalRGB", whitePoint, blackPoint, gamma, matrix)
          \/ \E range \in Ranges : ConstructCall("Lab", whitePoint, blackPoint, range, Undef)
  \/ /\ conv = NoConv
     /\ \E decodeArray \in DecodeMaps : \E numComps \in {-1, 1, 2} :
          IsDefaultDecodeCall(decodeArray, numComps)
  \/ /\ conv = NoConv
     /\ \E decodeMap \in IndexedDecodeMaps : \E bpc \in BpcValues :
          IndexedIsDefaultDecodeCall(decodeMap, bpc)
  \/ /\ conv = NoConv
     /\ \E c1 \in 1..Len(CalRgbSpaces) : \E c2 \in 1..Len(CalRgbSpaces) :
          \E src1 \in {<<FP, FP \div 2, 0>>, <<FP \div 4, FP, FP \div 2>>} :
            \E src2 \in [1..3 -> {0, FP \div 2, FP}] :
              ConvertToRgbCall(c1, src1, c2, src2)
  \/ /\ conv = NoConv
     /\ \E gamma \in {Undef, Real(2 * FP)} :
          \E blackPoint1 \in BlackPoints : \E blackPoint2 \in BlackPoints :
            \E src \in {FP \div 4, FP} : \E alpha01 \in {0, 1} :
              CalGrayPairCall(WhiteD65, gamma, blackPoint1, blackPoint2, src, 8, alpha01)
  \/ /\ conv = NoConv
     /\ \E w1 \in 1..(MaxWidth + 1) : \E h1 \in 1..MaxHeight :
          \E w2 \in 1..(MaxWidth + 1) : \E h2 \in 1..MaxHeight : \E alpha01 \in {0, 1, 2} :
            ResizeIndicesCall(w1, h1, w2, h2, alpha01)
  \/ /\ conv = NoConv
     /\ \E w1 \in {1, WideWidth - 1, WideWidth} : \E w2 \in {WideWidth - 1, WideWidth} :
          WideReadsCall(w1, w2)

\* the conversions do not look at the build beyond the assertions on the type
\* of dest, which the calls above satisfy
InitConv == Init /\ build = "dev"

SpecConv == InitConv /\ [][NextConv]_vars

(***************************************************************************)
(* The fields of the colour-space objects over a sequence of calls.  The   *)
(* only field a method assigns after construction is the tmpBuf of an      *)
(* AlternateCS, which getRgbItem hands to the tint function as its output. *)
(* In a behaviour of SpecCalls conv holds the objects as the calls so far  *)
(* left them.                                                              *)
(***************************************************************************)
\* getRgbItem storing the tinted values over numComps
AfterGetRgbItemIntoNumComps(cs, src, srcOffset) ==
  IF cs.name = "Alternate"
    THEN [cs EXCEPT !.numComps = Len(TintFn(cs.tintFn, src, srcOffset))]
    ELSE cs

RECURSIVE AfterGetRgbBuffer(_, _, _, _, _, _)

\* `this` after this.getRgbItem(src, srcOffset, dest, destOffset)
AfterGetRgbItem(cs, src, srcOffset) ==
  CASE cs.name = "Alternate" ->
         [cs EXCEPT !.tmpBuf = TintFn(cs.tintFn, src, srcOffset)]
    [] cs.name = "Indexed" ->
         [cs EXCEPT !.base = AfterGetRgbBuffer(cs.base, AsNumbers(cs.lookup),
                                Times(Index(Rd(src, srcOffset)), cs.base.numComps),
                                1, 8, 0)]
    [] OTHER -> cs

\* `this` after this.getRgbBuffer(src, srcOffset, count, dest, destOffset,
\* bits, alpha01): the buffers the method writes are its own, and the calls
\* it makes are calls of the methods of base
AfterGetRgbBuffer(cs, src, srcOffset, count, bits, alpha01) ==
  CASE cs.name = "Alternate" ->
         LET passthrough == AlternateIsPassthrough(cs, alpha01)
             baseBuf == AsNumbers(AlternateLoop(cs, src, srcOffset, ScaleDen(bits), count,
                                                Zeros(cs.base.numComps * count), 0))
         IN IF passthrough THEN cs
            ELSE [cs EXCEPT !.base = AfterGetRgbBuffer(cs.base, baseBuf, 0, count, 8,
                                                       alpha01)]
    [] cs.name = "Indexed" /\ count > 0 ->
         [cs EXCEPT !.base = AfterGetRgbBuffer(cs.base, AsNumbers(cs.lookup),
                                Times(Index(Rd(src, srcOffset + count - 1)),
                                      cs.base.numComps),
                                1, 8, alpha01)]
    [] OTHER -> cs

\* `this` after this.fillRgb(...) on an image of one pixel: getRgbBuffer is
\* the one method of this it calls
AfterFillRgb(cs, bpc, comps, alpha01) ==
  IF isPassthrough(cs, bpc) THEN cs
  ELSE AfterGetRgbBuffer(cs, comps, 0, 1, bpc, alpha01)

\* the objects as the calls so far left them
This == IF conv = NoConv THEN ConvSpaces ELSE conv.this

\* the call of a method on object c that leaves it as after
Called(method, c, after) ==
  /\ conv = NoConv \/ conv.op = "calls"
  /\ conv' = [op |-> "calls", method |-> method, this |-> [This EXCEPT ![c] = after]]
  /\ UNCHANGED <<cache, nextId, sing, made, loaded, returned, last, build, calls>>

\* getRgb, that calls getRgbItem, and getRgbItem
GetRgbItemOn(c, method, src) == Called(method, c, AfterGetRgbItem(This[c], src, 0))

GetRgbBufferOn(c, src, bits, alpha01) ==
  Called("getRgbBuffer", c, AfterGetRgbBuffer(This[c], src, 0, 1, bits, alpha01))

FillRgbOn(c, src, bpc, alpha01) ==
  Called("fillRgb", c, AfterFillRgb(This[c], bpc, src, alpha01))

\* getOutputLength, isPassthrough and isDefaultDecode assign nothing
QueryOn(c, method) == Called(method, c, This[c])

NextCalls ==
  \/ \E c \in ConvIds : \E src \in Samples(ConvSpaces[c]) :
       \/ \E method \in {"getRgb", "getRgbItem"} : GetRgbItemOn(c, method, src)
       \/ \E bits \in {1, 8} : \E alpha01 \in {0, 1} : GetRgbBufferOn(c, src, bits, alpha01)
       \/ \E bpc \in {1, 8} : \E alpha01 \in {0, 1} : FillRgbOn(c, src, bpc, alpha01)
  \/ \E c \in ConvIds : \E method \in {"getOutputLength", "isPassthrough", "isDefaultDecode"} :
       QueryOn(c, method)

SpecCalls == InitConv /\ [][NextCalls]_vars

(***************************************************************************)
(* Properties of the parser and its cache.                                 *)
(***************************************************************************)
\* a step that is one call of parse, parseAsync or getCached
IsCall == calls' = calls + 1

\* what getCached finds for the descriptor d before the call
CachedBefore(d) == GetCached(Descriptors[d], loaded, cache, TRUE)

\* C4: after parse succeeded for a reference or a Name, every later parse of
\* the same descriptor with the same cache returns the identical instance,
\* runs no _parse and constructs nothing.
C4_LaterParseReturnsCached ==
  [][(IsCall /\ last'.op = "parse" /\ last'.q.d \in CacheableIds
        /\ returned[last'.q.d] # 0)
       => (/\ last'.ex = "none"
           /\ last'.id = returned[last'.q.d]
           /\ last'.nparse = 0
           /\ nextId' = nextId)]_vars

\* the set call the claim C5 expects of a successful parse of cs giving id
ExpectedSets(cs, id) ==
  IF IsRef(cs)
    THEN LET v == Fetch(cs, loaded).v
         IN <<SetCall(IsName(v), IF IsName(v) THEN v.name ELSE "", TRUE, cs.num,
                      [id |-> id])>>
  ELSE IF IsName(cs) THEN <<SetCall(TRUE, cs.name, FALSE, 0, [id |-> id])>>
  ELSE <<>>

\* C5: a successful parse / parseAsync stores its result by exactly one
\* cache.set call, keyed by the reference (plus the name it resolves to) when
\* cs is a reference and by the name when cs is a Name; for an inline array
\* cache.set is not called.
C5_OneSetCall ==
  (last.op \in {"parse", "parseAsync"} /\ last.ex = "none" /\ ~last.hit)
    => last.sets = ExpectedSets(Descriptors[last.q.d], last.id)

\* C6: within one call the cache is written only once the outermost _parse
\* has returned successfully, by the single set call of _cache however many
\* nested _parse calls ran, and a call that throws leaves the cache as it was.
C6_CacheWrittenOnlyOnSuccess ==
  [][IsCall =>
       /\ cache' # cache =>
            /\ last'.op \in {"parse", "parseAsync"}
            /\ last'.ex = "none"
            /\ last'.nparse >= 1
            /\ Len(last'.sets) = 1
       /\ Len(last'.sets) <= 1
       /\ Len(last'.gets) <= 2
       /\ last'.ex # "none" => cache' = cache /\ last'.sets = <<>>]_vars

\* C6 witness: a parse with nested _parse calls wrote the cache once
C6_Witness ==
  /\ last.op = "parse" /\ last.ex = "none" /\ last.nparse >= 2
  /\ Len(last.sets) = 1
  /\ cache.byName["Alias"].id = last.id

\* C7, as stated: parseAsync for a cs getCached finds an instance for fails
\* its assertion without parsing or writing the cache; parse returns the
\* cached instance.
C7_AssertInEveryBuild ==
  [][(IsCall /\ last'.op \in {"parse", "parseAsync"} /\ last'.q.withCache
        /\ CachedBefore(last'.q.d).ex = "none" /\ CachedBefore(last'.q.d).inst.id # 0)
       => IF last'.op = "parseAsync"
            THEN last'.ex = "AssertionError" /\ last'.nparse = 0 /\ cache' = cache
            ELSE last'.ex = "none" /\ last'.id = CachedBefore(last'.q.d).inst.id]_vars

\* C7, amended: in a build that compiles the assertion in, parseAsync for a cs
\* getCached finds an instance for fails its assertion without parsing or
\* writing the cache; in a production build the assertion is absent and it
\* runs _parse again.  In every build parse returns the cached instance.
C7_AssertInDevBuild ==
  [][(IsCall /\ last'.op \in {"parse", "parseAsync"} /\ last'.q.withCache
        /\ CachedBefore(last'.q.d).ex = "none" /\ CachedBefore(last'.q.d).inst.id # 0)
       => IF last'.op = "parseAsync" /\ build = "dev"
            THEN last'.ex = "AssertionError" /\ last'.nparse = 0 /\ cache' = cache
          ELSE IF last'.op = "parseAsync"
            THEN last'.nparse >= 1 /\ last'.ex # "AssertionError"
          ELSE last'.ex = "none" /\ last'.id = CachedBefore(last'.q.d).inst.id]_vars

\* C7 witness: in a dev build, parseAsync of a cached reference was rejected
C7_Witness ==
  /\ build = "dev"
  /\ last.op = "parseAsync" /\ last.ex = "AssertionError"
  /\ Descriptors[last.q.d] = Ref(2)
  /\ cache.byRef[2].id # 0

Families == {"gray", "rgb", "cmyk"}

\* C8: at most one DeviceGray, one DeviceRGB and one DeviceCMYK instance is
\* ever constructed, and every device space a parse handed to the cache is
\* that one instance of its family.
C8_DeviceSingletons ==
  /\ \A fam \in Families : made[fam] <= 1 /\ (made[fam] = 1 <=> sing[fam].id # 0)
  /\ \A fam \in Families :
       /\ \A n \in RefNums :
            (cache.byRef[n].id # 0 /\ cache.byRef[n].cs.name = DeviceCS(fam).name)
              => cache.byRef[n] = sing[fam]
       /\ \A k \in NameKeys :
            (cache.byName[k].id # 0 /\ cache.byName[k].cs.name = DeviceCS(fam).name)
              => cache.byName[k] = sing[fam]

\* C8 witness: the name /DeviceGray was parsed and cached, and a later parse of
\* an ICCBased array fell back to the same DeviceGray instance
C8_Witness ==
  /\ made["gray"] = 1
  /\ cache.byName["DeviceGray"] = sing["gray"]
  /\ last.op = "parse" /\ last.ex = "none" /\ last.nparse >= 1
  /\ Descriptors[last.q.d] = Arr(<<Name("ICCBased"), IccStream([N |-> Num(1)])>>)
  /\ last.id = sing["gray"].id


\* the descriptor d is an [/ICCBased, stream] array
IsICCBased(d) == IsArray(Descriptors[d]) /\ At(Descriptors[d], 0) = Name("ICCBased")

\* the dictionary of the stream of an ICCBased descriptor
IccDict(d) == At(Descriptors[d], 1).dict.d

HasAlternate(d) == "Alternate" \in DOMAIN IccDict(d)

\* what parsing the Alternate entry gives, in the state before the call
ParsedAlternate(q) ==
  _parse(IccDict(q.d).Alternate, ResourcesList[q.r], loaded, ParserState, MaxDepth - 1)

FamilyByN(N) ==
  CASE N = 1 -> "gray"
    [] N = 3 -> "rgb"
    [] N = 4 -> "cmyk"
    [] OTHER -> "none"

\* a step that parses an ICCBased descriptor
ParsesICCBased ==
  /\ IsCall
  /\ last'.op \in {"parse", "parseAsync"}
  /\ IsICCBased(last'.q.d)
  /\ last'.nparse >= 1

\* C9, as stated: parsing [/ICCBased, stream] returns the parsed Alternate
\* exactly when the dictionary has an Alternate whose parsed numComps equals
\* N, and in every other case returns the device singleton chosen by N.
C9_AlternateOrSingleton ==
  [][ParsesICCBased =>
       LET q == last'.q
           N == IccDict(q.d).N.v
       IN IF HasAlternate(q.d) /\ ParsedAlternate(q).ex = "none"
               /\ ParsedAlternate(q).inst.cs.numComps = N
            THEN last'.ex = "none" /\ last'.id = ParsedAlternate(q).inst.id
            ELSE /\ last'.ex = "none"
                 /\ FamilyByN(N) \in Families
                 /\ last'.id = sing'[FamilyByN(N)].id]_vars

\* C9, amended: an exception thrown while parsing the Alternate propagates;
\* otherwise the parsed Alternate is returned exactly when its numComps
\* equals N, else the device singleton chosen by N when N is 1, 3 or 4, and
\* for any other N the parse ends in a FormatError.
C9_AlternateSingletonOrError ==
  [][ParsesICCBased =>
       LET q == last'.q
           N == IccDict(q.d).N.v
       IN IF HasAlternate(q.d) /\ ParsedAlternate(q).ex # "none"
            THEN last'.ex = ParsedAlternate(q).ex
          ELSE IF HasAlternate(q.d) /\ ParsedAlternate(q).inst.cs.numComps = N
            THEN last'.ex = "none" /\ last'.id = ParsedAlternate(q).inst.id
          ELSE IF FamilyByN(N) \in Families
            THEN /\ last'.ex = "none"
                 /\ last'.id = sing'[FamilyByN(N)].id
                 /\ HasAlternate(q.d) => last'.id # ParsedAlternate(q).inst.id
          ELSE last'.ex = "FormatError"]_vars

\* C9 witness: an ICCBased stream with N = 3 whose Alternate is a CalGray
\* space (numComps 1) parsed to the DeviceRGB singleton
C9_Witness ==
  /\ last.op = "parse" /\ last.ex = "none"
  /\ Descriptors[last.q.d] =
       Arr(<<Name("ICCBased"), IccStream([N |-> Num(3), Alternate |-> CalGrayArray])>>)
  /\ last.id = sing["rgb"].id
  /\ nextId >= 2

\* C10: in getCached for a reference that misses by reference, a
\* MissingDataException of xref.fetch is re-thrown, and any other exception
\* of xref.fetch is swallowed: getCached returns null after the one getByRef
\* lookup, with no lookup by name; the cache is unchanged either way.
C10_GetCachedExceptions ==
  [][(IsCall /\ last'.op = "getCached" /\ IsRef(Descriptors[last'.q.d])
        /\ CacheGetByRef(cache, Descriptors[last'.q.d]).id = 0)
       => LET f == Fetch(Descriptors[last'.q.d], loaded)
          IN /\ f.ex = "MissingDataException" =>
                  last'.ex = "MissingDataException" /\ cache' = cache
             /\ f.ex \notin {"none", "MissingDataException"} =>
                  /\ last'.ex = "none"
                  /\ last'.id = 0
                  /\ last'.gets = <<"getByRef">>
                  /\ cache' = cache]_vars

\* C10 witness: getCached re-threw the MissingDataException of a reference
\* whose data has not arrived
C10_Witness ==
  /\ last.op = "getCached"
  /\ Descriptors[last.q.d] = Ref(3)
  /\ 3 \notin loaded
  /\ last.ex = "MissingDataException"

(***************************************************************************)
(* Properties of the conversions.                                          *)
(***************************************************************************)
\* what one getRgbBuffer call over the decoded rows leaves in the dest the
\* recorded fillRgb call started from
DirectPath ==
  getRgbBuffer(ConvSpaces[conv.cs], conv.comps, 0, conv.z.w * conv.actualHeight,
               Filled(conv.z.w * conv.z.h * (3 + conv.alpha01)), 0, conv.bpc,
               conv.alpha01)

\* the recorded fillRgb call was not asked to resize and took the colour-map
\* fast path
TookFastPath ==
  /\ conv.op = "fillRgb"
  /\ conv.z.w = conv.z.ow /\ conv.z.h = conv.z.oh
  /\ UsesColorMap(ConvSpaces[conv.cs], conv.z.ow * conv.z.oh, conv.bpc)

\* C1: for a colour space that qualifies for the colour-map fast path, fillRgb
\* with width = originalWidth and height = originalHeight leaves dest
\* byte-for-byte equal to what one getRgbBuffer(comps, 0, width * actualHeight,
\* dest, 0, bpc, alpha01) call leaves in the same initial dest, for every
\* actualHeight <= originalHeight.
C1_FastPathEqualsDirect == TookFastPath => conv.dest = DirectPath

\* C2: for every colour space, every alpha01 and every count >= 0,
\* getOutputLength(count * numComps, alpha01) = count * (3 + alpha01).
C2_OutputLength ==
  conv.op = "getOutputLength" => conv.out = LMul(conv.count, 3 + conv.alpha01)

ScalesOnly(cs) ==
  \/ cs.name \in {"DeviceGray", "DeviceRGB", "DeviceCMYK", "CalGray", "CalRGB"}
  \/ cs.name = "Alternate" /\ cs.base.name \in {"DeviceGray", "DeviceRGB"}

Resolved(d) ==
  IF ~IsRef(Descriptors[d]) THEN Descriptors[d]
  ELSE IF Fetch(Descriptors[d], loaded).ex = "none" THEN Fetch(Descriptors[d], loaded).v
  ELSE [t |-> "Unfetched"]

\* resources.ColorSpace holds an entry for the name
InResources(name, r) ==
  /\ IsDict(ResourcesList[r])
  /\ "ColorSpace" \in DOMAIN ResourcesList[r].d
  /\ name \in DOMAIN ResourcesList[r].d.ColorSpace.d

Modes ==
  {"G", "DeviceGray", "RGB", "DeviceRGB", "CMYK", "DeviceCMYK", "CalGray", "CalRGB",
   "ICCBased", "Pattern", "I", "Indexed", "Separation", "DeviceN", "Lab"}

\* the four kinds of descriptor the parser rejects
Unrecognized(q) ==
  LET cs == Resolved(q.d)
  IN \/ /\ IsName(cs)
        /\ DeviceFamily(cs.name) = "none" /\ cs.name # "Pattern"
        /\ ~InResources(cs.name, q.r)
     \/ /\ IsArray(cs)
        /\ IsName(At(cs, 0)) /\ At(cs, 0).name \notin Modes
     \/ cs.t \notin {"Name", "Array", "Unfetched"}
     \/ /\ IsArray(cs)
        /\ IsName(At(cs, 0)) /\ At(cs, 0).name \in {"I", "Indexed"}
        /\ At(cs, 3).t \notin {"Stream", "Str"}

\* C11, as stated: parse of an unrecognized name, mode or object, or of an
\* Indexed array with a lookup that is neither stream nor string, ends in a
\* FormatError and returns no colour space.
C11_UnrecognizedIsFormatError ==
  (last.op = "parse" /\ last.q.withCache /\ Unrecognized(last.q))
    => last.ex = "FormatError" /\ last.id = 0

\* C11, amended: parse of such a descriptor ends in a FormatError and returns
\* no colour space unless getCached found an instance for it; then parse
\* returns that instance.
C11_UnrecognizedIsFormatErrorOnMiss ==
  (last.op = "parse" /\ last.q.withCache /\ Unrecognized(last.q))
    => IF last.hit THEN last.ex = "none" /\ last.id # 0 /\ last.nparse = 0
       ELSE last.ex = "FormatError" /\ last.id = 0

\* C11 witness: with another space already cached, parse of /Foo without
\* resources missed the cache and threw FormatError
C11_Witness ==
  /\ last.op = "parse" /\ calls = 2
  /\ Descriptors[last.q.d] = Name("Foo") /\ last.q.r = 1
  /\ ~last.hit /\ last.ex = "FormatError"
  /\ cache # EmptyCache


(***************************************************************************)
(* Properties of resizeRgbImage and of the decode maps.                    *)
(***************************************************************************)
\* C12: a resize to the same size has xScaled[i] = 3 i for every column i and
\* copies the three bytes of every pixel of src to the same pixel of dest.
C12_ResizeSameSizeIsIdentity ==
  conv.op = "resize" =>
    /\ conv.xScaled = 3 * conv.x
    /\ \A c \in 1..3 : conv.destPixel[c] * FP = conv.srcPixel[c]


\* the decode map of the recorded call is an array of exactly two numbers and
\* its bpc a whole number of at least 1
IndexedDecodeChecked ==
  /\ conv.decodeMap.t = "Nums" /\ Len(conv.decodeMap.v) = 2
  /\ conv.bpc # NaN /\ conv.bpc % FP = 0 /\ conv.bpc >= FP

\* the decode map of the recorded call is [0, (1 << bpc) - 1]; 1 << 32 is 1
\* and 1 << 33 is 2
IsIndexRange ==
  /\ conv.decodeMap.v[1] = 0
  /\ conv.decodeMap.v[2] =
       (CASE conv.bpc = 32 * FP -> 0
          [] conv.bpc = 33 * FP -> FP
          [] OTHER -> (2 ^ (conv.bpc \div FP) - 1) * FP)

\* C13, as stated: IndexedCS.isDefaultDecode returns true unless the map is
\* [0, (1 << bpc) - 1], and true when the map is no array of length 2 or bpc
\* no positive integer.
C13_TrueUnlessIndexRange ==
  conv.op = "IndexedCS.isDefaultDecode" =>
    (conv.out <=> (IndexedDecodeChecked => ~IsIndexRange))

\* C13, amended: IndexedCS.isDefaultDecode returns true when the map is no
\* array, has a length other than 2, or bpc is no positive integer; else it
\* returns true exactly when the map is [0, (1 << bpc) - 1].
C13_TrueIffIndexRange ==
  conv.op = "IndexedCS.isDefaultDecode" =>
    (conv.out <=> (IndexedDecodeChecked => IsIndexRange))

\* C13 witness: [0, 255] at 8 bits is a default decode map, and so is [0, 0]
\* at 32 bits
C13_Witness ==
  /\ conv.op = "IndexedCS.isDefaultDecode"
  /\ conv.decodeMap = Nums(<<0, 255 * FP>>) /\ conv.bpc = 8 * FP
  /\ conv.out

\* C14: the common isDefaultDecode returns false exactly when decode is an
\* array of length 2 * numComps with an even-indexed entry other than 0 or an
\* odd-indexed entry other than 1.
C14_FalseIffPairDiffers ==
  conv.op = "isDefaultDecode" =>
    (~conv.out <=>
       /\ conv.decode.t = "Nums"
       /\ Len(conv.decode.v) = 2 * (IF conv.numComps < 0 THEN 0 ELSE conv.numComps)
       /\ \E i \in 0..(Len(conv.decode.v) - 1) :
            \/ i % 2 = 0 /\ conv.decode.v[i + 1] # 0
            \/ i % 2 = 1 /\ conv.decode.v[i + 1] # FP)

\* C14 witness: a map of two components whose second pair is not (0, 1) is
\* no default decode map
C14_Witness ==
  /\ conv.op = "isDefaultDecode" /\ conv.numComps = 2
  /\ conv.decode = Nums(<<0, FP, FP \div 10, FP>>)
  /\ ~conv.out


(***************************************************************************)
(* Properties of getRgbBuffer and fillRgb: the bytes they write.           *)
(***************************************************************************)
\* C15: with alpha01 = 1, getRgbBuffer leaves every byte outside
\* [destOffset, destOffset + 4 count) and every alpha slot inside it as it
\* was, and fillRgb leaves every alpha slot of dest as it was.
C15_AlphaSlotsUntouched ==
  /\ (conv.op = "getRgbBuffer" /\ conv.alpha01 = 1) =>
       \A k \in 0..(Len(conv.dest) - 1) :
         (\/ k < conv.destOffset
          \/ k >= conv.destOffset + 4 * conv.count
          \/ (k - conv.destOffset) % 4 = 3) => conv.dest[k + 1] = 7
  /\ (conv.op = "fillRgb" /\ conv.alpha01 = 1) =>
       \A p \in 0..(conv.z.w * conv.z.h - 1) : conv.dest[4 * p + 4] = 7

\* C15 witness: an Indexed space over DeviceCMYK wrote two pixels from offset
\* 1 on and left both alpha slots
C15_Witness ==
  /\ conv.op = "getRgbBuffer" /\ conv.alpha01 = 1
  /\ ConvSpaces[conv.cs].name = "Indexed" /\ ConvSpaces[conv.cs].base.name = "DeviceCMYK"
  /\ conv.count = 2 /\ conv.destOffset = 1
  /\ conv.dest[2] # 7 /\ conv.dest[6] # 7
  /\ conv.dest[5] = 7 /\ conv.dest[9] = 7

\* C17: an Indexed space over DeviceRGB writes, for sample i with the valid
\* index idx, the palette bytes lookup[3 idx .. 3 idx + 2] at
\* destOffset + i (3 + alpha01), whatever alpha01.
C17_IndexedRgbWritesPalette ==
  (/\ conv.op = "getRgbBuffer"
   /\ ConvSpaces[conv.cs].name = "Indexed"
   /\ ConvSpaces[conv.cs].base.name = "DeviceRGB") =>
    \A i \in 0..(conv.count - 1) : \A c \in 0..2 :
      conv.dest[conv.destOffset + i * (3 + conv.alpha01) + c + 1]
        = ConvSpaces[conv.cs].lookup[3 * (conv.src[i + 1] \div FP) + c + 1]

\* C17 witness: the samples 1, 0 were written as (255, 0, 0), (0, 255, 0)
\* with an alpha slot between them
C17_Witness ==
  /\ conv.op = "getRgbBuffer" /\ conv.alpha01 = 1 /\ conv.destOffset = 0
  /\ ConvSpaces[conv.cs].name = "Indexed" /\ ConvSpaces[conv.cs].base.name = "DeviceRGB"
  /\ conv.src = <<FP, 0>>
  /\ conv.dest = <<255, 0, 0, 7, 0, 255, 0, 7, 7, 7>>

\* the recorded call is DeviceCMYK.getRgbBuffer on the one sample
\* [0, 0, 0, 255] at 8 bits without alpha
PureK ==
  /\ conv.op = "getRgbBuffer" /\ ConvSpaces[conv.cs].name = "DeviceCMYK"
  /\ conv.bits = 8 /\ conv.alpha01 = 0 /\ conv.count = 1
  /\ conv.src = <<0, 0, 0, 255 * FP>>

\* C18, as stated: pure K at 8 bits gives three bytes in 0..5.
C18_PureKIsDeepBlack ==
  PureK => \A c \in 1..3 : conv.dest[conv.destOffset + c] \in 0..5

\* C18, amended: pure K at 8 bits gives the dark grey (44, 46, 53).
C18_PureKIsDarkGrey ==
  PureK => SubSeq(conv.dest, conv.destOffset + 1, conv.destOffset + 3) = <<44, 46, 53>>

\* C18 witness: the call on pure K was made and wrote its three bytes
C18_Witness == PureK /\ conv.destOffset = 1 /\ conv.dest[1] = 7 /\ conv.dest[2] = 44


\* the recorded call parsed an [/Indexed base hival lookup] array, hival a
\* whole number, and returned what it built
ParsedIndexed ==
  /\ last.op = "parse" /\ last.ex = "none" /\ ~last.hit
  /\ IsArray(Resolved(last.q.d))
  /\ IsName(At(Resolved(last.q.d), 0))
  /\ At(Resolved(last.q.d), 0).name \in {"I", "Indexed"}
  /\ At(Resolved(last.q.d), 2).t = "Num"

\* C16: the Indexed space parse builds has highVal = hival + 1 and a palette
\* of base.numComps (hival + 1) bytes, byte i being byte i of the stream or
\* char code i of the string masked with 0xff.
C16_IndexedPalette ==
  ParsedIndexed =>
    LET cs == last.inst.cs
        hival == At(Resolved(last.q.d), 2).v
        lookup == At(Resolved(last.q.d), 3)
    IN /\ cs.name = "Indexed"
       /\ cs.highVal = hival + 1
       /\ Len(cs.lookup) = CompCount(cs.base) * (hival + 1)
       /\ lookup.t = "Stream" =>
            \A i \in 1..Len(cs.lookup) : i <= Len(lookup.bytes) => cs.lookup[i] = lookup.bytes[i]
       /\ lookup.t = "Str" =>
            \A i \in 1..Len(cs.lookup) : i <= Len(lookup.codes) => cs.lookup[i] = lookup.codes[i] % 256

\* C16 witness: the Indexed space over a Separation with hival 2 took the
\* first three bytes of its stream of four
C16_Witness ==
  /\ ParsedIndexed
  /\ last.inst.cs.base.name = "Alternate"
  /\ last.inst.cs.highVal = 3
  /\ last.inst.cs.lookup = <<10, 20, 30>>



(***************************************************************************)
(* Properties of the constructors of CalGray, CalRGB and Lab.              *)
(***************************************************************************)
\* the white point of the recorded constructor call is there and valid
ValidWhitePoint ==
  /\ conv.whitePoint.t = "Nums"
  /\ conv.whitePoint.v[1] >= 0 /\ conv.whitePoint.v[2] = FP /\ conv.whitePoint.v[3] >= 0

\* the white point an instance stores, as <<XW, YW, ZW>>
StoredWhitePoint(cs) == IF cs.name = "CalRGB" THEN cs.whitePoint ELSE <<cs.XW, cs.YW, cs.ZW>>

\* the black point an instance stores, as <<XB, YB, ZB>>
StoredBlackPoint(cs) == IF cs.name = "CalRGB" THEN cs.blackPoint ELSE <<cs.XB, cs.YB, cs.ZB>>

\* C19: a constructor returns an instance exactly for a white point that is
\* there and has YW = 1, XW >= 0 and ZW >= 0, and the instance stores it;
\* for any other it throws FormatError.
C19_WhitePointInvariant ==
  conv.op = "new" =>
    IF ValidWhitePoint
      THEN /\ conv.result.ex = "none"
           /\ StoredWhitePoint(conv.result.v) = conv.whitePoint.v
           /\ StoredWhitePoint(conv.result.v)[2] = FP
           /\ StoredWhitePoint(conv.result.v)[1] >= 0
           /\ StoredWhitePoint(conv.result.v)[3] >= 0
      ELSE conv.result = [ex |-> "FormatError"]

\* C19 witness: Lab was constructed with the white point D50 and stores it
C19_Witness ==
  /\ conv.op = "new" /\ conv.kind = "Lab" /\ conv.whitePoint = WhiteD50
  /\ conv.result.ex = "none" /\ conv.result.v.YW = FP /\ conv.result.v.ZW = 825

\* the value an optional argument of the recorded call has: the default when
\* the argument is absent (or the number 0)
GivenOr(arg, default) == IF arg.t = "Undef" \/ arg = Real(0) THEN default ELSE arg.v

\* C20: with a valid white point construction succeeds whatever the optional
\* arguments: a black point with a negative component is stored as (0, 0, 0),
\* a CalGray gamma below 1 as 1, CalRGB gammas with a negative component as
\* (1, 1, 1), a Lab range with amin > amax or bmin > bmax as
\* (-100, 100, -100, 100); every other value is stored as given.
C20_InvalidOptionalsDefaulted ==
  (conv.op = "new" /\ ValidWhitePoint) =>
    LET cs == conv.result.v
        bp == GivenOr(conv.blackPoint, <<0, 0, 0>>)
    IN /\ conv.result.ex = "none"
       /\ StoredBlackPoint(cs) = (IF AnyNegative(bp) THEN <<0, 0, 0>> ELSE bp)
       /\ \A i \in 1..3 : StoredBlackPoint(cs)[i] >= 0
       /\ conv.kind = "CalGray" =>
            LET g == GivenOr(conv.extra, FP)
            IN cs.G = (IF g < FP THEN FP ELSE g) /\ cs.G >= FP
       /\ conv.kind = "CalRGB" =>
            LET g == GivenOr(conv.extra, <<FP, FP, FP>>)
            IN /\ <<cs.GR, cs.GG, cs.GB>> = (IF AnyNegative(g) THEN <<FP, FP, FP>> ELSE g)
               /\ cs.GR >= 0 /\ cs.GG >= 0 /\ cs.GB >= 0
       /\ conv.kind = "Lab" =>
            LET rg == GivenOr(conv.extra, <<-100 * FP, 100 * FP, -100 * FP, 100 * FP>>)
            IN /\ <<cs.amin, cs.amax, cs.bmin, cs.bmax>> =
                    (IF rg[1] > rg[2] \/ rg[3] > rg[4]
                       THEN <<-100 * FP, 100 * FP, -100 * FP, 100 * FP>> ELSE rg)
               /\ cs.amin <= cs.amax /\ cs.bmin <= cs.bmax

\* C20 witness: CalGray was constructed from a negative black point and the
\* gamma 1/2, and stores (0, 0, 0) and 1
C20_Witness ==
  /\ conv.op = "new" /\ conv.kind = "CalGray"
  /\ conv.blackPoint = Nums(<<100, 50, -1>>) /\ conv.extra = Real(FP \div 2)
  /\ conv.result.ex = "none"
  /\ conv.result.v.G = FP /\ conv.result.v.XB = 0 /\ conv.result.v.YB = 0


(***************************************************************************)
(* Properties of the recursion of _parse.                                  *)
(***************************************************************************)
\* the size of a PDF object: the number of names, references and arrays in
\* it, the objects a colour space can be given as
RECURSIVE SizeOf(_)
SizeOf(o) ==
  LET RECURSIVE Sum(_, _)
      Sum(f, keys) == IF keys = {} THEN 0
                      ELSE LET k == CHOOSE x \in keys : TRUE
                           IN SizeOf(f[k]) + Sum(f, keys \ {k})
  IN CASE IsName(o) \/ IsRef(o) -> 1
       [] IsArray(o) -> 1 + Sum(o.a, DOMAIN o.a)
       [] IsDict(o) -> Sum(o.d, DOMAIN o.d)
       [] o.t = "Stream" -> SizeOf(o.dict)
       [] OTHER -> 0

\* the size of resources.ColorSpace, 0 when there is none
ColorSpaceSize(r) ==
  IF IsDict(ResourcesList[r]) /\ "ColorSpace" \in DOMAIN ResourcesList[r].d
    THEN SizeOf(ResourcesList[r].d.ColorSpace)
    ELSE 0

\* C21: beyond the one it starts with, a parse makes no more _parse calls
\* than the size of the descriptor (with the object a reference stands for)
\* and of resources.ColorSpace.
C21_ParseCallsBounded ==
  last.op \in {"parse", "parseAsync"} =>
    last.nparse <= 1 + SizeOf(Descriptors[last.q.d]) + SizeOf(Resolved(last.q.d))
                     + ColorSpaceSize(last.q.r)


(***************************************************************************)
(* Properties of the objects over a sequence of calls.                     *)
(***************************************************************************)
\* the fields of a colour space but the scratch buffer tmpBuf, down its bases
RECURSIVE Fields(_)
Fields(cs) ==
  [f \in (DOMAIN cs) \ {"tmpBuf"} |-> IF f = "base" THEN Fields(cs.base) ELSE cs[f]]

\* C22: after any sequence of calls of getRgb, getRgbItem, getRgbBuffer,
\* fillRgb, getOutputLength, isPassthrough and isDefaultDecode, the name,
\* numComps, base, palette, tint function and calibration parameters of every
\* colour space are the ones it was constructed with.
C22_CallsLeaveFields ==
  conv.op = "calls" =>
    \A c \in ConvIds : Fields(conv.this[c]) = Fields(ConvSpaces[c])

\* calls were made that left every Alternate scratch buffer changed
C22_Witness ==
  /\ conv.op = "calls"
  /\ \A c \in ConvIds :
       ConvSpaces[c].name = "Alternate" => conv.this[c].tmpBuf # ConvSpaces[c].tmpBuf
  /\ \A c \in ConvIds : Fields(conv.this[c]) = Fields(ConvSpaces[c])


(***************************************************************************)
(* Properties of the calls a conversion makes.                             *)
(***************************************************************************)
\* C23: fillRgb calls this.getRgbBuffer at most once: not at all when
\* isPassthrough(bpc) holds; once on the table of the 2^bpc sample values,
\* with count 2^bpc, bits bpc and alpha01 0 whatever the caller's alpha01,
\* exactly when it is not passthrough, numComps is 1, originalWidth *
\* originalHeight exceeds 2^bpc and the name is neither DeviceGray nor
\* DeviceRGB; and in every other case once on comps itself.
C23_OneGetRgbBufferCall ==
  conv.op = "fillRgb" =>
    LET cs == ConvSpaces[conv.cs]
        made1 == conv.getRgbBufferCalls
        passthrough == cs.name = "DeviceRGB" /\ conv.bpc = 8
        mapped == /\ ~passthrough
                  /\ cs.numComps = 1
                  /\ conv.z.ow * conv.z.oh > 2 ^ conv.bpc
                  /\ cs.name \notin {"DeviceGray", "DeviceRGB"}
    IN /\ Len(made1) <= 1
       /\ passthrough <=> Len(made1) = 0
       /\ mapped <=> (/\ Len(made1) = 1
                      /\ made1[1] = [src |-> "allColors", count |-> 2 ^ conv.bpc,
                                     bits |-> conv.bpc, alpha01 |-> 0])
       /\ (~passthrough /\ ~mapped) => (Len(made1) = 1 /\ made1[1].src = "comps")

\* fillRgb with alpha01 = 1 converted the table of sample values of an
\* Indexed space
C23_Witness ==
  /\ conv.op = "fillRgb"
  /\ ConvSpaces[conv.cs].name = "Indexed"
  /\ conv.alpha01 = 1
  /\ Len(conv.getRgbBufferCalls) = 1
  /\ conv.getRgbBufferCalls[1].src = "allColors"


\* the tinted values of pixel p (from 0) of the source of a getRgbBuffer call
\* on an Alternate space
TintedOf(p) ==
  LET cs == ConvSpaces[conv.cs]
  IN TintFn(cs.tintFn,
            [j \in 1..cs.numComps |->
               Scaled(Rd(conv.src, p * cs.numComps + j - 1), ScaleDen(conv.bits))],
            0)

\* the bytes of the temporary buffer: the tinted values times 255, or for a
\* base over another range the bytes base.getRgbItem makes of them
BaseBufOf(base, count) ==
  [k \in 1..(base.numComps * count) |->
     LET p == (k - 1) \div base.numComps
         j == (k - 1) % base.numComps
     IN IF base.name # "Lab"
          THEN ToUint8Clamp(Times(TintedOf(p)[j + 1], 255)) * FP
          ELSE getRgbItem(base, TintedOf(p), 0, Zeros(3), 0)[j + 1] * FP]

\* C24: AlternateCS.getRgbBuffer takes the short path exactly when
\* (base.isPassthrough(8) or base does not use the range 0 to 1) and alpha01
\* is 0.  On the short path the results for the samples go straight into dest
\* from destOffset on and base.getRgbBuffer is not called; on the other path
\* the count samples are tinted into a temporary buffer of base.numComps *
\* count bytes first, and base.getRgbBuffer is then called once, after the
\* loop, with bits 8 and the caller's alpha01.
C24_ShortPathOrOneBaseCall ==
  (conv.op = "getRgbBuffer" /\ ConvSpaces[conv.cs].name = "Alternate") =>
    LET cs == ConvSpaces[conv.cs]
        base == cs.base
        short == (base.name = "DeviceRGB" \/ base.name = "Lab") /\ conv.alpha01 = 0
        ev == conv.events
    IN IF short
         THEN /\ Len(ev) = conv.count
              /\ \A i \in 1..conv.count :
                   /\ ev[i].ev = "tinted" /\ ev[i].into = "dest"
                   /\ ev[i].pos = conv.destOffset + (i - 1) * base.numComps
                   /\ \A j \in 1..3 :
                        conv.dest[ev[i].pos + j] =
                          IF base.name = "DeviceRGB"
                            THEN ToUint8Clamp(Times(TintedOf(i - 1)[j], 255))
                            ELSE getRgbItem(base, TintedOf(i - 1), 0, Zeros(3), 0)[j]
         ELSE /\ Len(ev) = conv.count + 1
              /\ \A i \in 1..conv.count :
                   /\ ev[i].ev = "tinted" /\ ev[i].into = "baseBuf"
                   /\ ev[i].pos = (i - 1) * base.numComps
              /\ ev[conv.count + 1] =
                   [ev |-> "base.getRgbBuffer", src |-> "baseBuf",
                    length |-> base.numComps * conv.count, count |-> conv.count,
                    destOffset |-> conv.destOffset, bits |-> 8, alpha01 |-> conv.alpha01]
              /\ conv.dest =
                   getRgbBuffer(base, BaseBufOf(base, conv.count), 0, conv.count,
                                Filled(conv.destOffset + conv.count * (3 + conv.alpha01) + 2),
                                conv.destOffset, 8, conv.alpha01)

\* two samples went through the temporary buffer of an Alternate space over
\* DeviceRGB, alpha01 being 1
C24_Witness ==
  /\ conv.op = "getRgbBuffer"
  /\ ConvSpaces[conv.cs].name = "Alternate"
  /\ ConvSpaces[conv.cs].base.name = "DeviceRGB"
  /\ conv.alpha01 = 1
  /\ conv.count = 2
  /\ Len(conv.events) = 3
  /\ conv.events[3].ev = "base.getRgbBuffer"


(***************************************************************************)
(* Properties of the scratch vectors of CalRGBCS.                          *)
(***************************************************************************)
\* C25: in convertToRgb of CalRGBCS no stage overwrites an input it has yet
\* to read: each of the stages (normalize to flat, black-point compensation,
\* normalize to D65, XYZ to sRGB) leaves the vector the same stage computes
\* with buffers of its own, and what a call computes does not depend on what
\* earlier calls left in the scratch vectors.
C25_ScratchReuseIsSafe ==
  conv.op = "convertToRgb" =>
    LET cs == CalRgbSpaces[conv.cs]
        call == conv.call
    IN /\ call.XYZ_Flat = normalizeWhitePointToFlat(cs.whitePoint, call.XYZ)
       /\ call.XYZ_Black = compensateBlackPoint(cs.blackPoint, call.XYZ_Flat)
       /\ call.XYZ_D65 = normalizeWhitePointToD65(FLAT_WHITEPOINT_MATRIX, call.XYZ_Black)
       /\ call.SRGB = matrixProduct(SRGB_D65_XYZ_TO_RGB_MATRIX, call.XYZ_D65)
       /\ call.rgb = CalRgbToRgb(cs, conv.src, 0, 1)
       /\ \A f \in {"XYZ", "XYZ_Flat", "XYZ_Black", "XYZ_D65", "SRGB", "rgb"} :
            call[f] = conv.alone[f]

\* a call on scratch vectors an earlier call filled, by a space whose white
\* point is not flat and whose black point is not zero, every stage leaving
\* a vector that differs from its input
C25_Witness ==
  /\ conv.op = "convertToRgb"
  /\ conv.scratch.tempNormalizeMatrix # <<0, 0, 0>>
  /\ CalRgbSpaces[conv.cs].whitePoint # <<FP, FP, FP>>
  /\ CalRgbSpaces[conv.cs].blackPoint # <<0, 0, 0>>
  /\ conv.call.XYZ_Flat # conv.call.XYZ
  /\ conv.call.XYZ_Black # conv.call.XYZ_Flat
  /\ conv.call.XYZ_D65 # conv.call.XYZ_Black
  /\ conv.call.SRGB # conv.call.XYZ_D65
  /\ conv.call.mem # conv.scratch


(***************************************************************************)
(* Properties of CalGrayCS and its black point.                            *)
(***************************************************************************)
\* C26: two CalGray spaces constructed with the same white point and gamma
\* and different black points, negative and non-zero ones among them, write
\* the same bytes for every input of getRgbItem and getRgbBuffer.
C26_BlackPointIgnored ==
  conv.op = "calGrayPair" => (conv.item1 = conv.item2 /\ conv.buf1 = conv.buf2)

\* two spaces that keep different black points converted a sample to a grey
\* that is neither 0 nor 255
C26_Witness ==
  /\ conv.op = "calGrayPair"
  /\ conv.cs1.YB # conv.cs2.YB
  /\ conv.cs1.XB # 0
  /\ conv.item1[1] \in 1..254
  /\ conv.buf1[1] \in 1..254
  /\ conv.item1 = conv.item2


(***************************************************************************)
(* Properties of parseAsync and of cache hits.                             *)
(***************************************************************************)
\* C27: parseAsync runs its assertion, the parse and the cache write within
\* the call: when a parseAsync of a reference or a Name that the cache does
\* not hold hands back its promise, either the promise is fulfilled and the
\* cache holds the parsed space under the caller's key, or the promise is
\* rejected and the cache is as it was.
C27_ParseAsyncIsOneStep ==
  [][(IsCall /\ last'.op = "parseAsync" /\ Cacheable(last'.q.d)
        /\ CachedBefore(last'.q.d).inst.id = 0)
       => \/ /\ last'.ex = "none"
             /\ last'.inst.id # 0
             /\ GetCached(Descriptors[last'.q.d], loaded, cache', TRUE).inst = last'.inst
          \/ /\ last'.ex # "none"
             /\ cache' = cache]_vars


\* C28: a cache hit ignores the resources argument: once the cache holds a
\* space S under the Name n, parse of n with any resources, also one that
\* maps n to another descriptor or lacks n, returns S, parses nothing and
\* raises no error.
C28_HitIgnoresResources ==
  [][(IsCall /\ last'.op = "parse" /\ last'.q.withCache
        /\ IsName(Descriptors[last'.q.d])
        /\ cache.byName[Descriptors[last'.q.d].name].id # 0)
       => (/\ last'.ex = "none"
           /\ last'.inst = cache.byName[Descriptors[last'.q.d].name]
           /\ last'.nparse = 0
           /\ cache' = cache)]_vars

\* parse of /Foo with resources that lack /Foo returned the CalGray space
\* cached for /Foo
C28_Witness ==
  /\ last.op = "parse"
  /\ Descriptors[last.q.d] = Name("Foo")
  /\ last.q.r # 2
  /\ ~InResources("Foo", last.q.r) \/ ResourcesList[last.q.r].d.ColorSpace.d.Foo # CalGrayArray
  /\ last.hit
  /\ last.ex = "none"
  /\ last.inst.cs.name = "CalGray"


(***************************************************************************)
(* Properties of the two paths of AlternateCS.getRgbBuffer.                *)
(***************************************************************************)
\* what the getRgbBuffer call recorded in conv writes when it is made with
\* alpha01 = 0
WithoutAlpha ==
  getRgbBuffer(ConvSpaces[conv.cs], conv.src, 0, conv.count,
               Filled(conv.destOffset + conv.count * 3 + 2), conv.destOffset,
               conv.bits, 0)

\* C29: for an Alternate space over any base, Lab included, the three bytes
\* getRgbBuffer writes for sample i with alpha01 = 1 are the three bytes it
\* writes for sample i with alpha01 = 0; the stride of dest alone differs.
C29_AlphaLeavesRgb ==
  (conv.op = "getRgbBuffer" /\ ConvSpaces[conv.cs].name = "Alternate"
     /\ conv.alpha01 = 1)
    => \A i \in 0..(conv.count - 1) : \A j \in 1..3 :
         conv.dest[conv.destOffset + 4 * i + j] = WithoutAlpha[conv.destOffset + 3 * i + j]


(***************************************************************************)
(* Properties of the indices of resizeRgbImage.                            *)
(***************************************************************************)
\* C30: resizeRgbImage reads src inside the source image only and writes
\* dest inside the destination image only: whatever w1, h1, w2, h2 >= 1,
\* every index of src read is in [0, 3 * w1 * h1), and the bytes of dest
\* written are the ones at p * (3 + alpha01) + c for p < w2 * h2 and c < 3,
\* an alpha01 other than 1 counting as 0.
C30_ResizeStaysInside ==
  /\ conv.op \in {"resizeIndices", "resizeReads"} =>
       /\ conv.reads[1] >= 0
       /\ conv.reads[2] < 3 * conv.w1 * conv.h1
  /\ conv.op = "resizeIndices" =>
       LET a == IF conv.alpha01 = 1 THEN 1 ELSE 0
           inside == {p * (3 + a) + c : p \in 0..(conv.w2 * conv.h2 - 1), c \in 0..2}
       IN /\ conv.written = inside
          /\ \A k \in 1..Len(conv.dest) : (k - 1) \notin inside => conv.dest[k] = 7

\* an image was enlarged into a dest with alpha slots, alpha01 being 1, and
\* the last byte of the source was read
C30_Witness ==
  /\ conv.op = "resizeIndices"
  /\ conv.alpha01 = 1
  /\ conv.w2 > conv.w1 /\ conv.h2 > conv.h1
  /\ conv.reads = <<0, 3 * conv.w1 * conv.h1 - 1>>
  /\ conv.dest[4] = 7
  /\ conv.dest[5] # 7

====
